---- MODULE Spec2Model ----
(***************************************************************************)
(* A model of the gif-tools codec: the LZW coder (lzw.ts), the GIF writer  *)
(* (writer.ts), the GIF reader and canvas compositor (reader.ts), the      *)
(* median-cut quantizer and the helpers that create GIFs from images.      *)
(*                                                                         *)
(* Byte arrays and JavaScript strings are sequences of naturals, indexed   *)
(* from 1 (the code indexes from 0).  Bit operations are written with      *)
(* arithmetic: x & (2^n - 1) is x % 2^n, x >> n is x \div 2^n and an OR of *)
(* disjoint bit ranges is a sum.                                           *)
(***************************************************************************)
EXTENDS Integers, Sequences, FiniteSets, TLC

VARIABLES
    lz,     \* one compressLZW call followed by decompressLZW of its result
    wr,     \* a GifWriter and the calls made on it
    qz,     \* a MedianCutQuantizer call: its input and its result
    rd,     \* a GifReader: its bytes, its fields and the calls made on it
    ut      \* a call of a helper of the writer, and of its inverse in the reader

vars == <<lz, wr, qz, rd, ut>>

\* the value of a variable that the specification at hand does not use
Unused == [pc |-> "unused"]

Min(a, b) == IF a < b THEN a ELSE b

Max(a, b) == IF a > b THEN a ELSE b

(***************************************************************************)
(* Program constants                                                       *)
(***************************************************************************)
MAX_CODE_VALUE == 4095

GIF_TRAILER == 59

GIF_SIGNATURE == <<71, 73, 70>>

GIF_VERSION_89A == <<56, 57, 97>>

(***************************************************************************)
(* CodeToBytesConverter: packs codes into bytes, low bits first.           *)
(***************************************************************************)
RECURSIVE push(_, _, _)
push(cv, code, numBits) ==
    IF numBits <= 0 THEN cv
    ELSE LET bitsToTake == Min(numBits, 8 - cv.remainingBits)
             bits == code % (2 ^ bitsToTake)
             val  == cv.remainingValue + bits * (2 ^ cv.remainingBits)
             rb   == cv.remainingBits + bitsToTake
             cv2  == IF rb >= 8
                     THEN [output |-> Append(cv.output, val % 256),
                           remainingBits |-> rb - 8,
                           remainingValue |-> val \div 256]
                     ELSE [output |-> cv.output,
                           remainingBits |-> rb,
                           remainingValue |-> val]
         IN push(cv2, code \div (2 ^ bitsToTake), numBits - bitsToTake)

flush(cv) ==
    IF cv.remainingBits > 0
    THEN Append(cv.output, cv.remainingValue % 256)
    ELSE cv.output

(***************************************************************************)
(* LZWDictionary (encoder).  The single-character entries 0..clearCode-1   *)
(* are implicit; added maps every added string to its code.                *)
(***************************************************************************)
clearCodeOf(initialCodeSize) == 2 ^ initialCodeSize

endCodeOf(initialCodeSize) == clearCodeOf(initialCodeSize) + 1

dictGet(e, str) ==
    IF Len(str) = 1 /\ str[1] < clearCodeOf(e.initialCodeSize) THEN str[1]
    ELSE IF str \in DOMAIN e.added THEN e.added[str]
    ELSE -1

RECURSIVE growBits(_, _, _)
growBits(bits, max, maxCode) ==
    IF max <= maxCode /\ bits < 12
    THEN growBits(bits + 1, max * 2, maxCode)
    ELSE bits

\* calculateCodeBits keeping the initial width whatever the code
calculateCodeBits_narrow(maxCode, initialBits) == initialBits

\* calculateCodeBits growing the width one code too late
calculateCodeBits_late(maxCode, initialBits) ==
    IF maxCode <= 2 ^ initialBits THEN initialBits
    ELSE Min(growBits(initialBits, 2 ^ initialBits, maxCode - 1), 12)

calculateCodeBits(maxCode, initialBits) ==
    IF maxCode < 2 ^ initialBits THEN initialBits
    ELSE Min(growBits(initialBits, 2 ^ initialBits, maxCode), 12)

(***************************************************************************)
(* compressLZW, as the state before the loop, one loop iteration, and      *)
(* the code after the loop.  trace lists the (code, width) pairs handed to *)
(* the bit packer.                                                         *)
(***************************************************************************)
encPush(e, emitted, width) ==
    [e EXCEPT !.cv = push(e.cv, emitted, width),
              !.trace = Append(e.trace, <<emitted, width>>)]

encStart(initialCodeSize) ==
    LET
        NewCodeToBytesConverter ==
            [output |-> <<>>, remainingBits |-> 0, remainingValue |-> 0]
    IN
    encPush([initialCodeSize |-> initialCodeSize,
             cv |-> NewCodeToBytesConverter,
             added |-> <<>>,
             nextCode |-> endCodeOf(initialCodeSize) + 1,
             currentBits |-> initialCodeSize + 1,
             currentString |-> <<>>,
             trace |-> <<>>,
             error |-> "none"],
            clearCodeOf(initialCodeSize), initialCodeSize + 1)

encStep(e, byte) ==
    LET
        dictHas(str) ==
            \/ Len(str) = 1 /\ str[1] < clearCodeOf(e.initialCodeSize)
            \/ str \in DOMAIN e.added
        encShouldReset(enc) == enc.nextCode > MAX_CODE_VALUE
        encAdd(enc, str) ==
            LET e1 == [enc EXCEPT !.added = (str :> enc.nextCode) @@ enc.added,
                                !.nextCode = enc.nextCode + 1]
                newBits == calculateCodeBits(e1.nextCode - 1, enc.initialCodeSize + 1)
            IN IF newBits > e1.currentBits /\ newBits <= 12
               THEN [e1 EXCEPT !.currentBits = newBits]
               ELSE e1
        encReset(enc) ==
            [encPush(enc, clearCodeOf(enc.initialCodeSize), enc.currentBits)
                EXCEPT !.added = <<>>,
                       !.nextCode = endCodeOf(enc.initialCodeSize) + 1,
                       !.currentBits = enc.initialCodeSize + 1]
    IN
    LET char == <<byte>>
        newString == e.currentString \o char
    IN IF dictHas(newString)
       THEN [e EXCEPT !.currentString = newString]
       ELSE LET code == dictGet(e, e.currentString)
            IN IF code = -1
               THEN [e EXCEPT !.error = "GifEncodingError"]
               ELSE LET extend(e1) == IF ~encShouldReset(e1)
                                       THEN encAdd(e1, newString)
                                       ELSE encReset(e1)
                    IN [extend(encPush(e, code, e.currentBits))
                           EXCEPT !.currentString = char]

\* The encoder's locals when compressLZW returns or throws.
encRun(data, initialCodeSize) ==
    LET
        encFinish(e) ==
            LET end(e1) ==
                    IF e1.error # "none" THEN e1
                    ELSE encPush(e1, endCodeOf(e.initialCodeSize), e1.currentBits)
            IN end(IF Len(e.currentString) > 0
                   THEN LET code == dictGet(e, e.currentString)
                        IN IF code = -1
                           THEN [e EXCEPT !.error = "GifEncodingError"]
                           ELSE encPush(e, code, e.currentBits)
                   ELSE e)
        \* The for loop over data[lo..hi].  The range is halved instead of walked
        \* so that the evaluation stays shallow on inputs of thousands of bytes.
        RECURSIVE encLoop(_, _, _)
        encLoop(e, lo, hi) ==
            IF lo > hi \/ e.error # "none" THEN e
            ELSE IF lo = hi THEN encStep(e, data[lo])
            ELSE LET mid == (lo + hi) \div 2
                     l == encLoop(e, lo, mid)
                 IN encLoop(l, mid + 1, hi)
    IN
    IF Len(data) = 0 \/ initialCodeSize < 1 \/ initialCodeSize > 8
    THEN [encStart(1) EXCEPT !.error = "GifEncodingError"]
    ELSE LET finish(l) == IF l.error # "none" THEN l ELSE encFinish(l)
         IN finish(encLoop(encStart(initialCodeSize), 1, Len(data)))

\* The result of compressLZW: [error, bytes].
compressLZW(data, initialCodeSize) ==
    LET result(e) ==
            [error |-> e.error,
             bytes |-> IF e.error = "none" THEN flush(e.cv) ELSE <<>>]
    IN result(encRun(data, initialCodeSize))

(***************************************************************************)
(* BytesToCodeConverter: reads codes of a given width, low bits first.     *)
(***************************************************************************)
\* code is -1 where readCode returns null
readCode(d, data, numBits) ==
    LET
        RECURSIVE fillBits(_)
        fillBits(conv) ==
            IF conv.bitsInBuffer < numBits /\ conv.position < Len(data)
            THEN fillBits([conv EXCEPT
                             !.bitBuffer = conv.bitBuffer
                                           + data[conv.position + 1] * (2 ^ conv.bitsInBuffer),
                             !.bitsInBuffer = conv.bitsInBuffer + 8,
                             !.position = conv.position + 1])
            ELSE conv
    IN
    LET extract(f) ==
            IF f.bitsInBuffer < numBits
            THEN [code |-> -1, d |-> f]
            ELSE [code |-> f.bitBuffer % (2 ^ numBits),
                  d |-> [f EXCEPT
                            !.bitBuffer = f.bitBuffer \div (2 ^ numBits),
                            !.bitsInBuffer = f.bitsInBuffer - numBits]]
    IN extract(fillBits(d))

(***************************************************************************)
(* LZWDecodeDictionary.  dictionary[j] is the string of code endCode + j;  *)
(* the single-character entries are implicit and the clear and end slots   *)
(* hold undefined, which the caller turns into the empty string.           *)
(***************************************************************************)
decStart(initialCodeSize) ==
    [initialCodeSize |-> initialCodeSize,
     position |-> 0, bitBuffer |-> 0, bitsInBuffer |-> 0,
     dictionary |-> <<>>,
     nextCode |-> endCodeOf(initialCodeSize) + 1,
     currentBits |-> initialCodeSize + 1,
     previousString |-> <<>>,
     output |-> <<>>,
     trace |-> <<>>,
     status |-> "run"]

\* One iteration of the while loop of decompressLZW.
decStep(d0, data) ==
    LET
        hasMore(d) == d.position < Len(data) \/ d.bitsInBuffer > 0
        decGet(d, code) ==
            IF code >= d.nextCode THEN <<>>
            ELSE IF code < clearCodeOf(d.initialCodeSize) THEN <<code>>
            ELSE IF code <= endCodeOf(d.initialCodeSize) THEN <<>>
            ELSE d.dictionary[code - endCodeOf(d.initialCodeSize)]
        decAdd(d, str) ==
            IF d.nextCode < MAX_CODE_VALUE
            THEN [d EXCEPT !.dictionary = Append(d.dictionary, str),
                           !.nextCode = d.nextCode + 1]
            ELSE d
    IN
    IF ~hasMore(d0) THEN [d0 EXCEPT !.status = "done"]
    ELSE
    LET \* the rest of the iteration once currentString is known
        output(d, currentString) ==
            LET grow(a) ==
                    IF a.nextCode >= 2 ^ a.currentBits /\ a.currentBits < 12
                    THEN [a EXCEPT !.currentBits = a.currentBits + 1]
                    ELSE a
                remember(d2) == [d2 EXCEPT !.previousString = currentString]
                add(d1) ==
                    IF Len(d.previousString) > 0
                       /\ d1.nextCode < MAX_CODE_VALUE
                    THEN grow(decAdd(d1, d.previousString
                                         \o SubSeq(currentString, 1, 1)))
                    ELSE d1
            IN remember(add([d EXCEPT !.output = d.output \o currentString]))
        \* the iteration once the code is read
        handle(code, d) ==
            IF code = clearCodeOf(d.initialCodeSize)
            THEN [d EXCEPT !.dictionary = <<>>,
                           !.nextCode = endCodeOf(d.initialCodeSize) + 1,
                           !.currentBits = d.initialCodeSize + 1,
                           !.previousString = <<>>]
            ELSE IF code = endCodeOf(d.initialCodeSize)
            THEN [d EXCEPT !.status = "done"]
            ELSE IF code > d.nextCode
                    \/ (code = d.nextCode /\ Len(d.previousString) = 0)
            THEN [d EXCEPT !.status = "GifEncodingError"]
            ELSE output(d, IF code < d.nextCode THEN decGet(d, code)
                           ELSE Append(d.previousString, d.previousString[1]))
        read(rc) ==
            IF rc.code = -1 THEN [rc.d EXCEPT !.status = "done"]
            ELSE handle(rc.code,
                        [rc.d EXCEPT
                            !.trace = Append(d0.trace,
                                             <<rc.code, d0.currentBits>>)])
    IN read(readCode(d0, data, d0.currentBits))

\* The decoder's locals when decompressLZW returns or throws.
decRun(compressedData, initialCodeSize) ==
    LET
        \* The while loop: every iteration but the last takes at least one bit of
        \* the input, so that 8 * Len(data) + 1 iterations always reach its end.
        decLoop(d, data) ==
            LET
                \* At most n iterations of the while loop, halved like encLoop.
                RECURSIVE decIterate(_, _)
                decIterate(start, n) ==
                    IF n <= 0 \/ start.status # "run" THEN start
                    ELSE IF n = 1 THEN decStep(start, data)
                    ELSE LET h == decIterate(start, n \div 2)
                         IN decIterate(h, n - n \div 2)
            IN
            decIterate(d, 8 * Len(data) + 1)
    IN
    IF Len(compressedData) = 0
    THEN [decStart(1) EXCEPT !.status = "done"]
    ELSE IF initialCodeSize < 1 \/ initialCodeSize > 8
    THEN [decStart(1) EXCEPT !.status = "GifEncodingError"]
    ELSE decLoop(decStart(initialCodeSize), compressedData)

\* The result of decompressLZW: [error, bytes].
decompressLZW(compressedData, initialCodeSize) ==
    LET result(d) ==
            [error |-> IF d.status = "done" THEN "none" ELSE d.status,
             bytes |-> IF d.status = "done" THEN d.output ELSE <<>>]
    IN result(decRun(compressedData, initialCodeSize))

(***************************************************************************)
(* utils.ts: validation, colour tables and number conversions.  A throwing *)
(* function returns the name of the error class in its error field.        *)
(***************************************************************************)
NETSCAPE_APPLICATION_IDENTIFIER == <<78, 69, 84, 83, 67, 65, 80, 69>>

NETSCAPE_APPLICATION_AUTHENTICATION_CODE == <<50, 46, 48>>

\* validateDimensions: TRUE when it returns, FALSE when it throws
validDimensions(width, height) ==
    /\ width > 0 /\ width <= 65535
    /\ height > 0 /\ height <= 65535

\* validatePalette: TRUE when it returns, FALSE when it throws
validPalette(palette) ==
    LET
        MAX_COLORS == 256
    IN
    /\ Len(palette) # 0
    /\ Len(palette) % 3 = 0
    /\ Len(palette) \div 3 <= MAX_COLORS

\* calculateColorTableSize with a loop that goes on while pow2 <= colorCount
calculateColorTableSize_inclusive(colorCount) ==
    LET
        RECURSIVE tableSizeLoop(_, _)
        tableSizeLoop(size, pow2) ==
            IF pow2 <= colorCount THEN tableSizeLoop(size + 1, pow2 * 2)
            ELSE size
    IN
    tableSizeLoop(0, 2)

\* calculateColorTableSize for a colour count it accepts (1..256)
calculateColorTableSize(colorCount) ==
    LET
        RECURSIVE tableSizeLoop(_, _)
        tableSizeLoop(size, pow2) ==
            IF pow2 < colorCount THEN tableSizeLoop(size + 1, pow2 * 2)
            ELSE size
    IN
    tableSizeLoop(0, 2)

padColorTable(palette, requiredSize) ==
    LET currentColors == Len(palette) \div 3
        targetColors == 2 ^ (requiredSize + 1)
    IN IF currentColors >= targetColors THEN palette
       ELSE [i \in 1..(targetColors * 3) |->
                IF i <= Len(palette) THEN palette[i] ELSE 0]

\* write16BitLE: [error, bytes]
write16BitLE(value) ==
    IF value < 0 \/ value > 65535
    THEN [error |-> "GifValidationError", bytes |-> <<>>]
    ELSE [error |-> "none", bytes |-> <<value % 256, (value \div 256) % 256>>]

\* msToGifDelay with Math.floor in the place of Math.round
msToGifDelay_floor(ms) ==
    Max(0, ms \div 10)

msToGifDelay(ms) ==
    LET
        \* Math.round(ms / 10) for an integer ms: halves round towards +infinity
        roundTenth == (ms + 5) \div 10
    IN
    Max(0, roundTenth)

\* validateLZWParams: TRUE when it returns, FALSE when it throws
validLZWParams(data, codeSize) ==
    /\ Len(data) # 0
    /\ codeSize >= 1 /\ codeSize <= 8
    /\ \A i \in 1..Len(data) : data[i] <= 2 ^ codeSize - 1

(***************************************************************************)
(* GifWriter over a ByteArrayOutputStream.  Every method returns the       *)
(* writer as the call leaves it together with the error it threw, if any:  *)
(* the bytes written before a throw stay in the output.                    *)
(***************************************************************************)
NewGifWriter ==
    [output |-> <<>>, hasWrittenHeader |-> FALSE,
     hasWrittenLogicalScreen |-> FALSE, frameCount |-> 0]

Returns(w) == [w |-> w, error |-> "none"]

Throws(w, kind) == [w |-> w, error |-> kind]

\* sequencing: the rest of a method runs only if nothing was thrown
Then(r, rest(_)) == IF r.error # "none" THEN r ELSE rest(r.w)

writeByte(w, byte) ==
    IF byte < 0 \/ byte > 255 THEN Throws(w, "GifValidationError")
    ELSE Returns([w EXCEPT !.output = Append(@, byte)])

\* the loop of writeByte over bytes: the bytes before the first one that
\* writeByte rejects are written
writeBytes(w, bytes) ==
    LET written(rejected) ==
            IF rejected = {} THEN Returns([w EXCEPT !.output = @ \o bytes])
            ELSE LET first == CHOOSE i \in rejected :
                                  \A j \in rejected : i <= j
                 IN Throws([w EXCEPT !.output =
                                        @ \o SubSeq(bytes, 1, first - 1)],
                           "GifValidationError")
    IN written({i \in 1..Len(bytes) : bytes[i] < 0 \/ bytes[i] > 255})

\* writeBytes(write16BitLE(value)): the conversion throws before any write
write16(w, value) ==
    LET write(c) ==
            IF c.error # "none" THEN Throws(w, c.error)
            ELSE writeBytes(w, c.bytes)
    IN write(write16BitLE(value))

\* writeHeader writing the signature before it looks at the flag
writeHeader_writeFirst(w) ==
    Then(writeBytes(w, GIF_SIGNATURE), LAMBDA a :
    IF a.hasWrittenHeader THEN Throws(a, "GifEncodingError")
    ELSE Then(writeBytes(a, GIF_VERSION_89A), LAMBDA b :
         Returns([b EXCEPT !.hasWrittenHeader = TRUE])))

writeHeader(w) ==
    IF w.hasWrittenHeader THEN Throws(w, "GifEncodingError")
    ELSE Then(writeBytes(w, GIF_SIGNATURE), LAMBDA a :
         Then(writeBytes(a, GIF_VERSION_89A), LAMBDA b :
         Returns([b EXCEPT !.hasWrittenHeader = TRUE])))

\* GlobalColorTableOptions with the defaults filled in; colors = <<>> when
\* no colour table is given
DefaultGlobalOptions ==
    [colors |-> <<>>, sorted |-> FALSE, backgroundColorIndex |-> 0,
     pixelAspectRatio |-> 0]

writeLogicalScreen(w, width, height, options) ==
    IF ~w.hasWrittenHeader THEN Throws(w, "GifEncodingError")
    ELSE IF w.hasWrittenLogicalScreen THEN Throws(w, "GifEncodingError")
    ELSE IF ~validDimensions(width, height)
    THEN Throws(w, "GifValidationError")
    ELSE IF Len(options.colors) > 0 /\ ~validPalette(options.colors)
    THEN Throws(w, "GifValidationError")
    ELSE
    LET globalColorTableFlag == Len(options.colors) > 0
        colorTableSize ==
            IF globalColorTableFlag
            THEN calculateColorTableSize(Len(options.colors) \div 3) ELSE 0
        paddedColorTable ==
            IF globalColorTableFlag
            THEN padColorTable(options.colors, colorTableSize) ELSE <<>>
        packedFields == (IF globalColorTableFlag THEN 128 ELSE 0) + 112
                        + (IF options.sorted THEN 8 ELSE 0) + colorTableSize
    IN Then(write16(w, width), LAMBDA a :
       Then(write16(a, height), LAMBDA b :
       Then(writeByte(b, packedFields), LAMBDA c :
       Then(writeByte(c, options.backgroundColorIndex % 256), LAMBDA d :
       Then(writeByte(d, options.pixelAspectRatio % 256), LAMBDA e :
       Then(writeBytes(e, paddedColorTable), LAMBDA f :
       Returns([f EXCEPT !.hasWrittenLogicalScreen = TRUE])))))))

\* writeAnimationInfo writing the loop count with its high byte first
writeAnimationInfo_highFirst(w, loops) ==
    IF ~w.hasWrittenLogicalScreen THEN Throws(w, "GifEncodingError")
    ELSE LET loopCount == Max(0, Min(65535, loops))
         IN writeBytes(w, <<33, 255, 11>>
                          \o NETSCAPE_APPLICATION_IDENTIFIER
                          \o NETSCAPE_APPLICATION_AUTHENTICATION_CODE
                          \o <<3, 1, loopCount \div 256, loopCount % 256>>
                          \o <<0>>)

writeAnimationInfo(w, loops) ==
    IF ~w.hasWrittenLogicalScreen THEN Throws(w, "GifEncodingError")
    ELSE LET loopCount == Max(0, Min(65535, loops))
         IN writeBytes(w, <<33, 255, 11>>
                          \o NETSCAPE_APPLICATION_IDENTIFIER
                          \o NETSCAPE_APPLICATION_AUTHENTICATION_CODE
                          \o <<3, 1>> \o write16BitLE(loopCount).bytes
                          \o <<0>>)

\* ImageOptions: given holds the names of the options that are not
\* undefined; the fields of the others hold the defaults of the code
DefaultImageOptions ==
    [given |-> {}, left |-> 0, top |-> 0, delay |-> 0, disposal |-> 2,
     transparentIndex |-> -1]

writeGraphicsControl(w, options) ==
    LET delayTime == msToGifDelay(options.delay)
        hasTransparency == options.transparentIndex >= 0
                           /\ options.transparentIndex <= 255
        packedFields == (options.disposal % 8) * 4
                        + (IF hasTransparency THEN 1 ELSE 0)
    IN Then(writeBytes(w, <<33, 249, 4>>), LAMBDA a :
       Then(writeByte(a, packedFields), LAMBDA b :
       Then(write16(b, delayTime), LAMBDA c :
       Then(writeByte(c, IF hasTransparency
                         THEN options.transparentIndex % 256 ELSE 0),
            LAMBDA d : writeByte(d, 0)))))

writeImageDescriptor(writer, image, options) ==
    IF ~validPalette(image.palette) THEN Throws(writer, "GifValidationError")
    ELSE
    LET colorTableSize == calculateColorTableSize(Len(image.palette) \div 3)
    IN Then(writeByte(writer, 44), LAMBDA a :
       Then(write16(a, options.left), LAMBDA b :
       Then(write16(b, options.top), LAMBDA c :
       Then(write16(c, image.width), LAMBDA d :
       Then(write16(d, image.height), LAMBDA e :
       writeByte(e, 128 + colorTableSize))))))

\* writeDataSubBlocks writing whole blocks of 255 bytes only
RECURSIVE writeDataSubBlocks_whole(_, _, _)
writeDataSubBlocks_whole(out, data, offset) ==
    IF offset + 255 > Len(data) THEN Returns(out)
    ELSE Then(writeByte(out, 255), LAMBDA a :
         Then(writeBytes(a, SubSeq(data, offset + 1, offset + 255)),
              LAMBDA b : writeDataSubBlocks_whole(b, data, offset + 255)))

RECURSIVE writeDataSubBlocks(_, _, _)
writeDataSubBlocks(out, data, offset) ==
    IF offset >= Len(data) THEN Returns(out)
    ELSE LET blockSize == Min(255, Len(data) - offset)
         IN Then(writeByte(out, blockSize), LAMBDA a :
            Then(writeBytes(a, SubSeq(data, offset + 1, offset + blockSize)),
                 LAMBDA b : writeDataSubBlocks(b, data, offset + blockSize)))

writeImageData(writer, image) ==
    LET
        ceilLog2(n) ==
            LET
                \* Math.ceil(Math.log2(n)) for n >= 1
                RECURSIVE ceilLog2From(_)
                ceilLog2From(c) == IF 2 ^ c >= n THEN c ELSE ceilLog2From(c + 1)
            IN
            ceilLog2From(0)
    IN
    IF Len(image.data) # image.width * image.height
    THEN Throws(writer, "GifValidationError")
    ELSE
    LET colorCount == Len(image.palette) \div 3
        minCodeSize == IF colorCount <= 2 THEN 2 ELSE ceilLog2(colorCount)
        lzwCodeSize == Max(2, minCodeSize)
        maxIndex == colorCount - 1
    IN IF \E i \in 1..Len(image.data) : image.data[i] > maxIndex
       THEN Throws(writer, "GifValidationError")
       ELSE IF ~validLZWParams(image.data, lzwCodeSize)
       THEN Throws(writer, "GifEncodingError")
       ELSE LET write(compressedData) ==
                    IF compressedData.error # "none"
                    THEN Throws(writer, compressedData.error)
                    ELSE Then(writeByte(writer, lzwCodeSize), LAMBDA a :
                         Then(writeDataSubBlocks(a, compressedData.bytes, 0),
                              LAMBDA b : writeByte(b, 0)))
            IN write(compressLZW(image.data, lzwCodeSize))

writeImage(w, image, options) ==
    IF ~w.hasWrittenLogicalScreen THEN Throws(w, "GifEncodingError")
    ELSE IF ~validDimensions(image.width, image.height)
    THEN Throws(w, "GifValidationError")
    ELSE IF ~validPalette(image.palette) THEN Throws(w, "GifValidationError")
    ELSE
    LET needsGraphicsControl == w.frameCount > 0 \/ options.given # {}
        paddedPalette ==
            padColorTable(image.palette,
                          calculateColorTableSize(Len(image.palette) \div 3))
    IN Then(IF needsGraphicsControl THEN writeGraphicsControl(w, options)
            ELSE Returns(w), LAMBDA a :
       Then(writeImageDescriptor(a, image, options), LAMBDA b :
       Then(writeBytes(b, paddedPalette), LAMBDA c :
       Then(writeImageData(c, image), LAMBDA d :
       Returns([d EXCEPT !.frameCount = d.frameCount + 1])))))

\* writeTrailer writing the block terminator instead of the trailer
writeTrailer_terminator(w) == writeByte(w, 0)

writeTrailer(w) == writeByte(w, GIF_TRAILER)

writeStaticGif(w, image, globalOptions, imageOptions) ==
    Then(writeHeader(w), LAMBDA a :
    Then(writeLogicalScreen(a, image.width, image.height, globalOptions),
         LAMBDA b :
    Then(writeImage(b, image, imageOptions), LAMBDA c : writeTrailer(c))))

\* images.forEach(writeImage); imageOptions[index] || {} is the given
\* options or the empty ones
RECURSIVE writeImages(_, _, _, _)
writeImages(w, images, imageOptions, index) ==
    IF index > Len(images) THEN Returns(w)
    ELSE LET options == IF index <= Len(imageOptions)
                        THEN imageOptions[index] ELSE DefaultImageOptions
         IN Then(writeImage(w, images[index], options), LAMBDA a :
            writeImages(a, images, imageOptions, index + 1))

writeAnimatedGif(w, images, globalOptions, loops, imageOptions) ==
    IF Len(images) = 0 THEN Throws(w, "GifValidationError")
    ELSE Then(writeHeader(w), LAMBDA a :
         Then(writeLogicalScreen(a, images[1].width, images[1].height,
                                 globalOptions), LAMBDA b :
         Then(writeAnimationInfo(b, loops), LAMBDA c :
         Then(writeImages(c, images, imageOptions, 1), LAMBDA d :
         writeTrailer(d)))))

(***************************************************************************)
(* Inputs of the LZW round trip.                                           *)
(***************************************************************************)
MaxLen == 4

MaxRun == 9

FillSlack == 0

ShortInputs(k) ==
    LET
        \* the smallest, the second and the largest symbol of the alphabet [0, 2^k)
        Alphabet == {0, 1, 2 ^ k - 1}
        RECURSIVE SeqsOf(_, _)
        SeqsOf(S, n) ==
            IF n = 0 THEN {<<>>}
            ELSE LET shorter == SeqsOf(S, n - 1)
                 IN shorter \cup {Append(s, x) : s \in {t \in shorter : Len(t) = n - 1},
                                                  x \in S}
    IN
    SeqsOf(Alphabet, MaxLen) \ {<<>>}

\* runs of one symbol, followed by another symbol or not
RunInputs(k) ==
    {[i \in 1..n |-> 1] \o t : n \in 5..MaxRun, t \in {<<>>, <<0>>}}

\* inputs that end around the point where the dictionary is full; the tail
\* 0 0 0 7 makes the encoder send the code it has assigned last
LongInputs(k) ==
    LET
        \* a sequence of bytes in which no two adjacent positions hold the same pair
        PairSeq(n) ==
            [i \in 1..n |-> (((i - 1) % 256) * (2 * ((i - 1) \div 256) + 1)) % 256]
        \* the number of bytes of PairSeq after which the encoder has assigned
        \* code 4095: every byte but the first adds one dictionary entry
        FillPoint == MAX_CODE_VALUE - endCodeOf(k) + 1
    IN
    IF k # 8 THEN {}
    ELSE {PairSeq(n) \o t :
            n \in (FillPoint - 2 - FillSlack)..(FillPoint + 1 + FillSlack),
            t \in {<<>>, <<0, 0, 0, 7>>}}

LzInputs(k) == ShortInputs(k) \cup RunInputs(k) \cup LongInputs(k)

(***************************************************************************)
(* The LZW round trip: a call of compressLZW, then a call of decompressLZW *)
(* on the bytes it returned.  lz.e and lz.d keep the encoder's and the     *)
(* decoder's locals as they are when the call returns.                     *)
(***************************************************************************)
LzInit ==
    \E k \in 1..8 : \E data \in LzInputs(k) :
        /\ lz = [pc |-> "start", k |-> k, data |-> data,
                 e |-> encStart(k), bytes |-> <<>>, d |-> decStart(k)]
        /\ wr = Unused
        /\ qz = Unused
        /\ rd = Unused
        /\ ut = Unused

LzCompress ==
    /\ lz.pc = "start"
    /\ \E e \in {encRun(lz.data, lz.k)} :
          lz' = [lz EXCEPT !.e = e,
                           !.bytes = IF e.error = "none" THEN flush(e.cv)
                                     ELSE <<>>,
                           !.pc = IF e.error = "none" THEN "compressed"
                                  ELSE "done"]
    /\ UNCHANGED <<wr, qz, rd, ut>>

LzDecompress ==
    /\ lz.pc = "compressed"
    /\ lz' = [lz EXCEPT !.d = decRun(lz.bytes, lz.k),
                        !.pc = "done"]
    /\ UNCHANGED <<wr, qz, rd, ut>>

LzNext ==
    \/ LzCompress
    \/ LzDecompress

SpecLZW == LzInit /\ [][LzNext]_vars

\* C1: decompressLZW(compressLZW(s, k), k) returns exactly s, for every
\* non-empty s over [0, 2^k) with k in 2..8, dictionary clears included.
C1_RoundTrip ==
    (lz.pc = "done" /\ lz.k \in 2..8) =>
        /\ lz.e.error = "none"
        /\ lz.d.status = "done"
        /\ lz.d.output = lz.data

\* a round trip has completed in which the encoder's dictionary filled up
\* and a clear code was sent in mid-stream
C1_Witness ==
    /\ lz.pc = "done"
    /\ lz.d.output = lz.data
    /\ \E j \in 2..Len(lz.e.trace) : lz.e.trace[j][1] = clearCodeOf(lz.k)

(***************************************************************************)
(* The GifWriter API: any public method may be called at any time.  The    *)
(* state keeps the writer, whether a trailer and a Netscape block have     *)
(* been written, the last call with its outcome, and the same data as they *)
(* were before that call.                                                  *)
(***************************************************************************)
MaxCalls == 4

Red == <<255, 0, 0>>

Green == <<0, 255, 0>>

Blue == <<0, 0, 255>>

Image(width, height, data, palette) ==
    [width |-> width, height |-> height, data |-> data, palette |-> palette]

OneByOne == Image(1, 1, <<0>>, Red)

TwoByOne == Image(2, 1, <<0, 1>>, Red \o Green)

TwoByTwo == Image(2, 2, <<0, 1, 2, 0>>, Red \o Green \o Blue)

ShortData == Image(2, 1, <<0>>, Red \o Green)

PixelOutOfPalette == Image(1, 1, <<1>>, Red)

WithDelay(ms) ==
    [DefaultImageOptions EXCEPT !.given = {"delay"}, !.delay = ms]

\* the (image, options) arguments of writeImage
ImageCalls ==
    LET
        ZeroWidth == Image(0, 1, <<>>, Red)
        BadPalette == Image(1, 1, <<0>>, <<1, 2>>)
        WithLeft(x) == [DefaultImageOptions EXCEPT !.left = x]
        WithTop(y) == [DefaultImageOptions EXCEPT !.top = y]
        WithTransparent(index) ==
            [DefaultImageOptions EXCEPT !.given = {"transparentIndex"},
                                        !.transparentIndex = index]
    IN
    {<<OneByOne, DefaultImageOptions>>,
     <<TwoByOne, WithDelay(100)>>,
     <<TwoByTwo, WithTransparent(0)>>,
     <<ShortData, DefaultImageOptions>>,
     <<PixelOutOfPalette, DefaultImageOptions>>,
     <<ZeroWidth, DefaultImageOptions>>,
     <<BadPalette, DefaultImageOptions>>,
     <<OneByOne, WithLeft(65536)>>,
     <<OneByOne, WithTop(-1)>>,
     <<OneByOne, WithDelay(655355)>>,
     <<OneByOne, WithDelay(-100)>>}

\* the (width, height, options) arguments of writeLogicalScreen
ScreenCalls ==
    {<<1, 1, DefaultGlobalOptions>>,
     <<2, 2, [DefaultGlobalOptions EXCEPT !.colors = Red \o Green \o Blue]>>,
     <<0, 1, DefaultGlobalOptions>>,
     <<1, 65536, DefaultGlobalOptions>>,
     <<1, 1, [DefaultGlobalOptions EXCEPT !.colors = <<1, 2, 3, 4>>]>>}

\* the (image, globalOptions, imageOptions) arguments of writeStaticGif
StaticCalls ==
    {<<OneByOne, DefaultGlobalOptions, DefaultImageOptions>>,
     <<TwoByTwo, DefaultGlobalOptions, WithDelay(100)>>,
     <<ShortData, DefaultGlobalOptions, DefaultImageOptions>>}

\* the (images, loops, imageOptions) arguments of writeAnimatedGif
AnimatedCalls ==
    {<<<<>>, 0, <<>>>>,
     <<<<OneByOne>>, 0, <<>>>>,
     <<<<TwoByOne, OneByOne>>, 3, <<WithDelay(100), WithDelay(200)>>>>,
     <<<<OneByOne, PixelOutOfPalette>>, 0, <<>>>>}

WrInit ==
    /\ wr = [w |-> NewGifWriter, trailerWritten |-> FALSE,
             animationInfoWritten |-> FALSE, calls |-> 0,
             last |-> [op |-> "new", error |-> "none"], arg |-> <<>>,
             before |-> [w |-> NewGifWriter, trailerWritten |-> FALSE,
                         animationInfoWritten |-> FALSE]]
    /\ lz = Unused
    /\ qz = Unused
    /\ rd = Unused
    /\ ut = Unused

\* the state after a call of op that left r, having written a trailer or a
\* Netscape block or not; arg keeps the arguments of a writeImage or a
\* writeAnimatedGif
WrCalled(op, r, trailer, animationInfo, arg) ==
    /\ wr.calls < MaxCalls
    /\ wr' = [w |-> r.w,
              trailerWritten |-> wr.trailerWritten \/ trailer,
              animationInfoWritten |-> wr.animationInfoWritten
                                       \/ animationInfo,
              calls |-> wr.calls + 1,
              last |-> [op |-> op, error |-> r.error], arg |-> arg,
              before |-> [w |-> wr.w, trailerWritten |-> wr.trailerWritten,
                          animationInfoWritten |-> wr.animationInfoWritten]]
    /\ UNCHANGED <<lz, qz, rd, ut>>

WrHeader == WrCalled("writeHeader", writeHeader(wr.w), FALSE, FALSE, <<>>)

WrLogicalScreen ==
    \E c \in ScreenCalls :
        WrCalled("writeLogicalScreen",
                 writeLogicalScreen(wr.w, c[1], c[2], c[3]), FALSE, FALSE,
                 <<>>)

WrAnimationInfo ==
    \E loops \in {0, 70000} :
        LET r == writeAnimationInfo(wr.w, loops)
        IN WrCalled("writeAnimationInfo", r, FALSE, r.error = "none", <<>>)

WrImage ==
    \E c \in ImageCalls :
        WrCalled("writeImage", writeImage(wr.w, c[1], c[2]), FALSE, FALSE, c)

WrTrailer ==
    LET r == writeTrailer(wr.w)
    IN WrCalled("writeTrailer", r, r.error = "none", FALSE, <<>>)

WrStaticGif ==
    \E c \in StaticCalls :
        \E r \in {writeStaticGif(wr.w, c[1], c[2], c[3])} :
            WrCalled("writeStaticGif", r, r.error = "none", FALSE, <<>>)

\* writeAnimatedGif writes the Netscape block once the header and the
\* logical screen are through
WrAnimatedGif ==
    \E c \in AnimatedCalls :
        \E r \in {writeAnimatedGif(wr.w, c[1], DefaultGlobalOptions, c[2],
                                   c[3])} :
            WrCalled("writeAnimatedGif", r, r.error = "none",
                     r.w.hasWrittenLogicalScreen
                     /\ ~wr.w.hasWrittenLogicalScreen, c)

WrNext ==
    \/ WrHeader
    \/ WrLogicalScreen
    \/ WrAnimationInfo
    \/ WrImage
    \/ WrTrailer
    \/ WrStaticGif
    \/ WrAnimatedGif

SpecWriter == WrInit /\ [][WrNext]_vars

WriteOps ==
    {"writeHeader", "writeLogicalScreen", "writeAnimationInfo", "writeImage",
     "writeTrailer", "writeStaticGif", "writeAnimatedGif"}

\* C3: the writer accepts only header, logical screen, at most one animation
\* info, one or more images, trailer: an animation info after a frame or a
\* second one, a trailer before any frame, and any write after the trailer
\* are rejected with an error.
C3_StrictOrdering ==
    /\ ( /\ wr.last.op = "writeAnimationInfo"
         /\ (wr.before.w.frameCount > 0 \/ wr.before.animationInfoWritten) )
       => wr.last.error # "none"
    /\ (wr.last.op = "writeTrailer" /\ wr.before.w.frameCount = 0)
       => wr.last.error # "none"
    /\ (wr.last.op \in WriteOps /\ wr.before.trailerWritten)
       => wr.last.error # "none"

\* the last call came before its prerequisite or repeated a call that is
\* allowed once
Misordered ==
    \/ /\ wr.last.op = "writeLogicalScreen"
       /\ (~wr.before.w.hasWrittenHeader
           \/ wr.before.w.hasWrittenLogicalScreen)
    \/ /\ wr.last.op \in {"writeImage", "writeAnimationInfo"}
       /\ ~wr.before.w.hasWrittenLogicalScreen
    \/ /\ wr.last.op = "writeHeader"
       /\ wr.before.w.hasWrittenHeader

\* C4: a call made before its prerequisite, or a second writeHeader or
\* writeLogicalScreen, throws GifEncodingError and leaves the output bytes
\* and the writer state as they were before the call.
C4_MisorderedCallLeavesWriter ==
    Misordered => (wr.last.error = "GifEncodingError" /\ wr.w = wr.before.w)

\* a second writeLogicalScreen has been rejected after some bytes were
\* written, and left them alone
C4_Witness ==
    /\ wr.last.op = "writeLogicalScreen"
    /\ wr.before.w.hasWrittenLogicalScreen
    /\ wr.last.error = "GifEncodingError"
    /\ wr.w = wr.before.w
    /\ Len(wr.w.output) > 6

\* C5: whenever writeLogicalScreen, writeAnimationInfo or writeImage throws,
\* no byte has been appended to the output and the flags and the frame
\* count of the writer are unchanged.
C5_ValidateBeforeMutation ==
    ( /\ wr.last.op \in {"writeLogicalScreen", "writeAnimationInfo",
                         "writeImage"}
      /\ wr.last.error # "none" )
    => wr.w = wr.before.w

\* C6: the output of a successful writeStaticGif or writeAnimatedGif on a
\* new GifWriter starts with 47 49 46 38 39 61 and ends with 3B.
C6_SignatureAndTrailer ==
    ( /\ wr.calls = 1
      /\ wr.last.op \in {"writeStaticGif", "writeAnimatedGif"}
      /\ wr.last.error = "none" )
    => /\ Len(wr.w.output) > 6
       /\ SubSeq(wr.w.output, 1, 6) = <<71, 73, 70, 56, 57, 97>>
       /\ wr.w.output[Len(wr.w.output)] = 59

\* writeAnimatedGif has returned two frames' worth of bytes on a new writer
C6_Witness ==
    /\ wr.calls = 1
    /\ wr.last.op = "writeAnimatedGif"
    /\ wr.last.error = "none"
    /\ wr.w.frameCount = 2
    /\ wr.w.output[Len(wr.w.output)] = 59

(***************************************************************************)
(* Median-cut quantizer.  A colour is a record of its three components, a  *)
(* cube the sequence of its colours, an ImageData a width, a height and    *)
(* the flat RGBA bytes.  Array positions are the code's 0-based ones; the  *)
(* element at position j of a sequence arr is arr[j + 1].                  *)
(***************************************************************************)
RGB(r, g, b) == [red |-> r, green |-> g, blue |-> b]

\* the colour of pixel i: data[offset], data[offset + 1], data[offset + 2]
colorAt(data, i) == RGB(data[4 * i + 1], data[4 * i + 2], data[4 * i + 3])

MaxOf(S) == CHOOSE x \in S : \A y \in S : x >= y

analyzeColorCube(colors) ==
    LET
        MinOf(S) == CHOOSE x \in S : \A y \in S : x <= y
    IN
    LET reds == {colors[i].red : i \in 1..Len(colors)}
        greens == {colors[i].green : i \in 1..Len(colors)}
        blues == {colors[i].blue : i \in 1..Len(colors)}
    IN [minRed |-> MinOf(reds \cup {255}), maxRed |-> MaxOf(reds \cup {0}),
        minGreen |-> MinOf(greens \cup {255}),
        maxGreen |-> MaxOf(greens \cup {0}),
        minBlue |-> MinOf(blues \cup {255}), maxBlue |-> MaxOf(blues \cup {0}),
        size |-> Len(colors)]

componentOf(color, component) ==
    IF component = "red" THEN color.red
    ELSE IF component = "green" THEN color.green
    ELSE color.blue

partition(arr, left, right) ==
    LET
        RECURSIVE partitionLoop(_, _, _, _)
        partitionLoop(cur, i, j, pivot) ==
            LET
                swap(xs, a, b) == [xs EXCEPT ![a + 1] = xs[b + 1], ![b + 1] = xs[a + 1]]
            IN
            IF j >= right THEN [arr |-> swap(cur, i, right), pivotIndex |-> i]
            ELSE IF cur[j + 1] <= pivot
            THEN partitionLoop(swap(cur, i, j), i + 1, j + 1, pivot)
            ELSE partitionLoop(cur, i, j + 1, pivot)
    IN
    partitionLoop(arr, left, left, arr[right + 1])

findMedian(colors, component) ==
    LET
        \* called with 0 <= k < array.length only: findMedian passes
        \* floor(length / 2) of a cube of two colours or more
        selectKthElement(array, k) ==
            LET
                RECURSIVE quickSelect(_, _, _)
                quickSelect(arr, left, right) ==
                    IF left < right
                    THEN LET select(p) ==
                                 IF p.pivotIndex = k THEN p.arr[k + 1]
                                 ELSE IF p.pivotIndex < k
                                 THEN quickSelect(p.arr, p.pivotIndex + 1, right)
                                 ELSE quickSelect(p.arr, left, p.pivotIndex - 1)
                         IN select(partition(arr, left, right))
                    ELSE arr[k + 1]
            IN
            quickSelect(array, 0, Len(array) - 1)
    IN
    LET values == [i \in 1..Len(colors) |-> componentOf(colors[i], component)]
    IN selectKthElement(values, Len(values) \div 2)

\* the sequence of the one or two cubes the split leaves
splitColorCube(colors) ==
    LET
        \* the weights 1.0, 0.8 and 0.5 in tenths
        findLargestComponent(stats) ==
            LET redRange == (stats.maxRed - stats.minRed) * 10
                greenRange == (stats.maxGreen - stats.minGreen) * 8
                blueRange == (stats.maxBlue - stats.minBlue) * 5
            IN IF greenRange >= blueRange
               THEN (IF redRange >= greenRange THEN "red" ELSE "green")
               ELSE (IF redRange >= blueRange THEN "red" ELSE "blue")
    IN
    IF Len(colors) <= 1 THEN <<colors>>
    ELSE
    LET halves(lowerHalf, upperHalf) ==
            IF Len(lowerHalf) = 0 \/ Len(upperHalf) = 0 THEN <<colors>>
            ELSE <<lowerHalf, upperHalf>>
        divide(component, median) ==
            halves(SelectSeq(colors, LAMBDA c :
                       componentOf(c, component) < median),
                   SelectSeq(colors, LAMBDA c :
                       ~(componentOf(c, component) < median)))
        along(component) == divide(component, findMedian(colors, component))
    IN along(findLargestComponent(analyzeColorCube(colors)))

calculateAverageColor(colors) ==
    LET
        RECURSIVE sumOf(_, _)
        sumOf(rest, component) ==
            IF rest = <<>> THEN 0
            ELSE componentOf(Head(rest), component) + sumOf(Tail(rest), component)
    IN
    RGB(sumOf(colors, "red") \div Len(colors),
        sumOf(colors, "green") \div Len(colors),
        sumOf(colors, "blue") \div Len(colors))

findLargestCube(cubes) ==
    LET
        \* the position of the first cube of the greatest size
        RECURSIVE largestLoop(_, _)
        largestLoop(i, largest) ==
            IF i >= Len(cubes) THEN largest
            ELSE IF Len(cubes[i + 1]) > Len(cubes[largest + 1])
            THEN largestLoop(i + 1, i)
            ELSE largestLoop(i + 1, largest)
    IN
    largestLoop(1, 0)

\* the exit test of the loop: it runs while cubes.length <= maxColors
cubesComplete_inclusive(cubes, maxColors) == ~(Len(cubes) <= maxColors)

\* the exit test of the loop: it runs while cubes.length < maxColors
cubesComplete(cubes, maxColors) == ~(Len(cubes) < maxColors)

\* maxColors > 0 here: the constructor has rejected the others
medianCut(colors, maxColors) ==
    LET
        RECURSIVE medianCutLoop(_)
        medianCutLoop(cubes) ==
            LET
                \* cubes.splice(index, 1)
                splice1(index) ==
                    SubSeq(cubes, 1, index) \o SubSeq(cubes, index + 2, Len(cubes))
            IN
            IF cubesComplete(cubes, maxColors) THEN cubes
            ELSE LET replace(index, splits) ==
                         IF Len(splits) = 1 THEN cubes
                         ELSE medianCutLoop(splice1(index) \o splits)
                     split(index, largest) ==
                         IF Len(largest) <= 1 THEN cubes
                         ELSE replace(index, splitColorCube(largest))
                     pick(index) == split(index, cubes[index + 1])
                 IN pick(findLargestCube(cubes))
    IN
    IF Len(colors) <= maxColors
    THEN [i \in 1..Len(colors) |-> <<colors[i]>>]
    ELSE medianCutLoop(<<colors>>)

\* extractColors keeping the colour of every pixel, repeated or not
extractColors_all(imageData) ==
    [i \in 1..(imageData.width * imageData.height) |->
        colorAt(imageData.data, i - 1)]

extractColors(imageData) ==
    LET
        RECURSIVE extractLoop(_, _, _, _)
        extractLoop(data, i, pixelCount, colors) ==
            IF i >= pixelCount THEN colors
            ELSE LET c == colorAt(data, i)
                 IN extractLoop(data, i + 1, pixelCount,
                                IF \E j \in 1..Len(colors) : colors[j] = c
                                THEN colors ELSE Append(colors, c))
    IN
    extractLoop(imageData.data, 0, imageData.width * imageData.height, <<>>)

colorDistanceSquared(a, b) ==
    (a.red - b.red) * (a.red - b.red)
    + (a.green - b.green) * (a.green - b.green)
    + (a.blue - b.blue) * (a.blue - b.blue)

\* -1 stands for the GifValidationError thrown for an empty palette
findClosestColorIndex(target, palette) ==
    LET
        RECURSIVE closestLoop(_, _, _)
        closestLoop(i, bestIndex, bestDistance) ==
            IF i >= Len(palette) THEN bestIndex
            ELSE LET compare(distance) ==
                         IF distance < bestDistance
                         THEN (IF distance = 0 THEN i
                               ELSE closestLoop(i + 1, i, distance))
                         ELSE closestLoop(i + 1, bestIndex,
                                          bestDistance)
                 IN compare(colorDistanceSquared(target, palette[i + 1]))
    IN
    IF Len(palette) = 0 THEN -1
    ELSE closestLoop(1, 0,
                     colorDistanceSquared(target, palette[1]))

\* new MedianCutQuantizer(maxColors) past its range check
NewQuantizer(maxColors) ==
    [maxColors |-> maxColors, palette |-> <<>>, colorMap |-> <<>>]

validMaxColors(maxColors) == ~(maxColors <= 0 \/ maxColors > 256)

\* the map from every colour of a cube to the position of the cube; a later
\* cube overwrites an earlier one
buildColorMap(cubes) ==
    LET keys == UNION {{cubes[p][i] : i \in 1..Len(cubes[p])}
                       : p \in 1..Len(cubes)}
    IN [key \in keys |->
           MaxOf({p \in 1..Len(cubes) :
                     \E i \in 1..Len(cubes[p]) : cubes[p][i] = key}) - 1]

\* the index of the colour and the quantizer with the colour in its map
mapColor(state, color) ==
    IF color \in DOMAIN state.colorMap
    THEN [index |-> state.colorMap[color], q |-> state]
    ELSE LET cached(index) ==
                 [index |-> index,
                  q |-> [state EXCEPT !.colorMap =
                            [key \in DOMAIN state.colorMap \cup {color} |->
                                IF key = color THEN index
                                ELSE state.colorMap[key]]]]
         IN cached(findClosestColorIndex(color, state.palette))

convertToIndexed(q, imageData) ==
    LET
        \* the loop over the pixels shared by convertToIndexed and quantizeFrames:
        \* the indices so far and the quantizer
        RECURSIVE indexLoop(_, _, _, _, _)
        indexLoop(state, data, i, pixelCount, indexed) ==
            IF i >= pixelCount THEN [indexed |-> indexed, q |-> state]
            ELSE LET next(m) ==
                         indexLoop(m.q, data, i + 1, pixelCount,
                                   Append(indexed, m.index))
                 IN next(mapColor(state, colorAt(data, i)))
    IN
    indexLoop(q, imageData.data, 0, imageData.width * imageData.height, <<>>)

getPaletteData(q) ==
    LET
        RECURSIVE paletteLoop(_, _)
        paletteLoop(palette, i) ==
            IF i >= Len(palette) THEN <<>>
            ELSE <<palette[i + 1].red, palette[i + 1].green, palette[i + 1].blue>>
                 \o paletteLoop(palette, i + 1)
    IN
    paletteLoop(q.palette, 0)

\* the IndexedImage returned and the quantizer after the call
quantize(q0, imageData) ==
    LET built(cubes) ==
            [q0 EXCEPT
                !.palette = [i \in 1..Len(cubes) |->
                                calculateAverageColor(cubes[i])],
                !.colorMap = buildColorMap(cubes)]
        result(c) ==
            [image |-> Image(imageData.width, imageData.height, c.indexed,
                             getPaletteData(c.q)),
             q |-> c.q]
    IN result(convertToIndexed(
                  built(medianCut(extractColors(imageData), q0.maxColors)),
                  imageData))

\* the outcome of a quantizer call: the images, or the error thrown
Quantized(images) ==
    IF \E i \in 1..Len(images) :
          \E j \in 1..Len(images[i].data) : images[i].data[j] < 0
    THEN [error |-> "GifValidationError", images |-> <<>>]
    ELSE [error |-> "none", images |-> images]

quantizeFrames(frames, maxColors) ==
    LET
        \* frames.map of quantizeFrames: the images so far and the quantizer
        RECURSIVE framesLoop(_, _, _, _)
        framesLoop(q, i, palette, images) ==
            IF i > Len(frames) THEN images
            ELSE LET next(c) ==
                         framesLoop(c.q, i + 1, palette,
                                    Append(images,
                                           Image(frames[i].width, frames[i].height,
                                                 c.indexed, palette)))
                 IN next(convertToIndexed(q, frames[i]))
    IN
    IF Len(frames) = 0 THEN Quantized(<<>>)
    ELSE IF ~validMaxColors(maxColors)
    THEN [error |-> "GifValidationError", images |-> <<>>]
    ELSE LET rest(first) ==
                 Quantized(framesLoop(first.q, 1,
                                      first.image.palette, <<>>))
         IN rest(quantize(NewQuantizer(maxColors), frames[1]))

quantizeImage(imageData, maxColors) ==
    IF ~validMaxColors(maxColors)
    THEN [error |-> "GifValidationError", images |-> <<>>]
    ELSE Quantized(<<quantize(NewQuantizer(maxColors), imageData).image>>)

(***************************************************************************)
(* The quantizer's callers: quantizeImage on one truecolor image and       *)
(* quantizeFrames on the frames of an animation.                           *)
(***************************************************************************)
MaxPixels == 4

MaxFrames == 2

ImageData(width, height, pixels) ==
    LET
        RECURSIVE flatten(_)
        flatten(rest) ==
            IF rest = <<>> THEN <<>> ELSE Head(rest) \o flatten(Tail(rest))
    IN
    [width |-> width, height |-> height, data |-> flatten(pixels)]

\* truecolor images: 1 <= width, height and data.length = width*height*4
Shapes == {<<n, 1>> : n \in 1..MaxPixels} \cup {<<2, 2>>}

StillImages ==
    LET
        StillInputs ==
            LET
                \* RGBA pixels: two near-black ones, the primaries, yellow, and a red that
                \* differs from the opaque red in its alpha byte only
                Pixels ==
                    {<<0, 0, 0, 255>>, <<0, 10, 0, 255>>, <<255, 0, 0, 255>>,
                     <<255, 0, 0, 0>>, <<0, 255, 0, 255>>, <<0, 0, 255, 255>>,
                     <<255, 255, 0, 255>>}
            IN
            {ImageData(sh[1], sh[2], px) :
                sh \in Shapes, px \in UNION {[1..n -> Pixels] : n \in 1..MaxPixels}}
    IN
    {im \in StillInputs : Len(im.data) = 4 * im.width * im.height}

FrameInputs ==
    LET
        FrameImages ==
            LET
                SmallFrames ==
                    LET
                        FramePixels ==
                            {<<0, 0, 0, 255>>, <<255, 0, 0, 255>>, <<0, 255, 0, 255>>,
                             <<0, 0, 255, 255>>}
                    IN
                    {ImageData(n, 1, px) : n \in 1..2, px \in [1..1 -> FramePixels]
                                                            \cup [1..2 -> FramePixels]}
            IN
            {im \in SmallFrames : Len(im.data) = 4 * im.width * im.height}
    IN
    UNION {[1..n -> FrameImages] : n \in 1..MaxFrames}

MaxColorsInputs == {0, 1, 2, 3, 4, 256, 257}

QzInit ==
    LET
        \* images of five and six colours: the first cut along red leaves
        \* black and green in one cube and the colours of full red in the other
        CutImages ==
            {ImageData(5, 1, <<<<0, 0, 0, 255>>, <<0, 255, 0, 255>>,
                               <<255, 0, 0, 255>>, <<255, 0, 255, 255>>,
                               <<255, 255, 0, 255>>>>),
             ImageData(3, 2, <<<<0, 0, 0, 255>>, <<0, 255, 0, 255>>,
                               <<255, 0, 0, 255>>, <<255, 0, 255, 255>>,
                               <<255, 255, 0, 255>>, <<255, 255, 255, 255>>>>)}
    IN
    /\ \E maxColors \in MaxColorsInputs :
       \E frames \in {<<im>> : im \in StillImages \cup CutImages}
                      \cup FrameInputs :
          qz = [pc |-> "start", maxColors |-> maxColors, frames |-> frames,
                op |-> "none", error |-> "none", images |-> <<>>]
    /\ lz = Unused
    /\ wr = Unused
    /\ rd = Unused
    /\ ut = Unused

QzReturned(op, r) ==
    /\ qz.pc = "start"
    /\ qz' = [qz EXCEPT !.pc = "done", !.op = op, !.error = r.error,
                        !.images = r.images]
    /\ UNCHANGED <<lz, wr, rd, ut>>

QzQuantizeImage ==
    QzReturned("quantizeImage", quantizeImage(qz.frames[1], qz.maxColors))

QzQuantizeFrames ==
    QzReturned("quantizeFrames", quantizeFrames(qz.frames, qz.maxColors))

QzNext == QzQuantizeImage \/ QzQuantizeFrames

SpecQuantizer == QzInit /\ [][QzNext]_vars

\* C10: for every image and every maxColors in 1..256, quantize, and the
\* shared-palette quantization of every frame of an animation, returns a
\* palette of 1 to maxColors colours and exactly width*height indices, each
\* smaller than the number of colours of the palette.
C10_QuantizeRanges ==
    (qz.pc = "done" /\ qz.maxColors \in 1..256)
    => /\ qz.error = "none"
       /\ Len(qz.images) =
             (IF qz.op = "quantizeImage" THEN 1 ELSE Len(qz.frames))
       /\ \A i \in 1..Len(qz.images) :
             LET im == qz.images[i]
                 colours == Len(im.palette) \div 3
             IN /\ Len(im.palette) = 3 * colours
                /\ colours >= 1
                /\ colours <= qz.maxColors
                /\ im.width = qz.frames[i].width
                /\ im.height = qz.frames[i].height
                /\ Len(im.data) = im.width * im.height
                /\ \A j \in 1..Len(im.data) :
                      im.data[j] >= 0 /\ im.data[j] < colours

\* an animation whose first frame has more colours than maxColors and whose
\* second frame has a colour the first has not
C10_Witness ==
    /\ qz.pc = "done"
    /\ qz.op = "quantizeFrames"
    /\ qz.error = "none"
    /\ Len(qz.frames) = 2
    /\ qz.maxColors = 1
    /\ Len(extractColors(qz.frames[1])) = 2
    /\ \E j \in 1..Len(extractColors(qz.frames[2])) :
          \A i \in 1..Len(extractColors(qz.frames[1])) :
             extractColors(qz.frames[2])[j] # extractColors(qz.frames[1])[i]

(***************************************************************************)
(* GifReader: reading primitives.  A cursor is the position of the reader, *)
(* the error thrown so far, and the number or the bytes the last read      *)
(* returned.  A read on a cursor that has thrown does nothing, so a        *)
(* straight line of reads is written as a chain and its error looked at    *)
(* where the code would have been left.                                    *)
(***************************************************************************)
Cursor(position) ==
    [position |-> position, error |-> "none", value |-> 0, bytes |-> <<>>]

readByte(data, c) ==
    IF c.error # "none" THEN c
    ELSE IF c.position >= Len(data)
    THEN [c EXCEPT !.error = "GifValidationError"]
    ELSE [c EXCEPT !.value = data[c.position + 1],
                   !.position = c.position + 1]

read16(data, c) ==
    LET word(low, high) ==
            IF high.error # "none" THEN high
            ELSE [high EXCEPT !.value = low.value + 256 * high.value]
        second(low) == word(low, readByte(data, low))
    IN second(readByte(data, c))

readBytes(data, c, count) ==
    IF c.error # "none" THEN c
    ELSE IF c.position + count > Len(data)
    THEN [c EXCEPT !.error = "GifValidationError"]
    ELSE [c EXCEPT !.bytes = SubSeq(data, c.position + 1, c.position + count),
                   !.position = c.position + count]

\* this.position += count
advance(c, count) ==
    IF c.error # "none" THEN c ELSE [c EXCEPT !.position = c.position + count]

skipDataSubBlocks(data, c) ==
    LET
        \* the while loop of skipDataSubBlocks; c.value is blockSize
        RECURSIVE skipLoop(_)
        skipLoop(blockSize) ==
            IF blockSize.error # "none" \/ blockSize.value = 0 THEN blockSize
            ELSE skipLoop(readByte(data, advance(blockSize, blockSize.value)))
    IN
    skipLoop(readByte(data, c))

readDataSubBlocks(data, c) ==
    LET
        \* the while loop of readDataSubBlocks; c.value is blockSize
        RECURSIVE readBlocksLoop(_, _)
        readBlocksLoop(blockSize, result) ==
            IF blockSize.error # "none" THEN blockSize
            ELSE IF blockSize.value = 0 THEN [blockSize EXCEPT !.bytes = result]
            ELSE LET blockData == readBytes(data, blockSize, blockSize.value)
                 IN readBlocksLoop(readByte(data, blockData),
                                   result \o blockData.bytes)
    IN
    readBlocksLoop(readByte(data, c), <<>>)

PNG == <<80, 78, 71>>

JPEG_MARKER == <<255, 216>>

VERSION_87A == <<56, 55, 97>>

XMP_IDENTIFIER == <<88, 77, 80, 32, 68, 97, 116, 97, 88, 77, 80>>

\* the error validateHeader throws, or "none"
validateHeader(data) ==
    LET
        \* "<", "PNG", and the identifiers of the application extensions
        LessThanSign == 60
        \* firstChars.includes('PNG') on the first four bytes
        includesPNG(firstBytes) ==
            \E i \in 1..(Len(firstBytes) - 2) : SubSeq(firstBytes, i, i + 2) = PNG
    IN
    IF Len(data) < 6 THEN "GifValidationError"
    ELSE IF data[1] = LessThanSign THEN "GifValidationError"
    ELSE IF includesPNG(SubSeq(data, 1, 4)) THEN "GifValidationError"
    ELSE IF SubSeq(data, 1, 2) = JPEG_MARKER THEN "GifValidationError"
    ELSE IF SubSeq(data, 1, 3) # GIF_SIGNATURE THEN "GifValidationError"
    ELSE IF SubSeq(data, 4, 6) \notin {VERSION_87A, GIF_VERSION_89A}
    THEN "GifValidationError"
    ELSE "none"

NewGifReader(data) ==
    LET
        \* the fields of a new GifReader; info is <<>> for null and <<info>> once
        \* parse has returned
        NewMetadata ==
            [extensions |-> <<>>, comments |-> <<>>, xmpData |-> <<>>,
             hasInterlacedFrames |-> FALSE, hasLocalColorTables |-> FALSE,
             hasTransparency |-> FALSE, totalDataSize |-> 0, averageFrameSize |-> 0]
    IN
    [data |-> data, position |-> 0, info |-> <<>>, frames |-> <<>>,
     metadata |-> NewMetadata]

\* the logical screen descriptor and the global colour table, <<>> when
\* the stream has none
readLogicalScreen(data, c0) ==
    LET width == read16(data, c0)
        height == read16(data, width)
        packed == readByte(data, height)
        backgroundColorIndex == readByte(data, packed)
        pixelAspectRatio == readByte(data, backgroundColorIndex)
        globalColorTableFlag == packed.value \div 128 = 1
        globalColorTableSize == 2 * (2 ^ (packed.value % 8))
        table == IF globalColorTableFlag
                 THEN readBytes(data, pixelAspectRatio,
                                globalColorTableSize * 3)
                 ELSE pixelAspectRatio
    IN [c |-> table, width |-> width.value, height |-> height.value,
        backgroundColorIndex |-> backgroundColorIndex.value,
        pixelAspectRatio |-> pixelAspectRatio.value,
        colorResolution |-> ((packed.value \div 16) % 8) + 1,
        sortFlag |-> (packed.value \div 8) % 2 = 1,
        globalColorTable |-> IF globalColorTableFlag THEN table.bytes
                             ELSE <<>>]

(***************************************************************************)
(* GifReader.parse, as the code before the loop, one iteration of the      *)
(* loop, and the code after it.  The locals of a running call are          *)
(* p: position and metadata are the reader's fields, status tells whether  *)
(* the iteration went on to the next ("loop"), left the loop ("break") or  *)
(* threw ("GifValidationError").  An entry of metadata.extensions is its   *)
(* text without the identifier or label it ends with.                      *)
(***************************************************************************)
Resume(p, c) ==
    [p EXCEPT !.position = c.position,
              !.status = IF c.error = "none" THEN "loop" ELSE "GifValidationError"]

Pushed(p, name) ==
    [p EXCEPT !.metadata.extensions = Append(@, name)]

\* one iteration of the while loop; this.position < this.data.length holds
parseStep(data, p) ==
    LET
        parseExtension(separator) ==
            LET
                parseApplication(label) ==
                    LET
                        \* the first bytes of a byte array: slice(0, count)
                        slice0(bytes, count) == SubSeq(bytes, 1, Min(count, Len(bytes)))
                        ICC_PREFIX == <<73, 67, 67, 82, 71, 66, 71, 49>>
                        MAGPIE01 == <<77, 65, 71, 80, 73, 69, 48, 49>>
                        MAGPIE02 == <<77, 65, 71, 80, 73, 69, 48, 50>>
                        ADOBE == <<65, 68, 79, 66, 69>>
                        ANIMEXTS == <<65, 78, 73, 77, 69, 88, 84, 83, 49, 46, 48>>
                        parseNetscape(appData) ==
                            LET subBlockSize == readByte(data, appData)
                                three == subBlockSize.error = "none" /\ subBlockSize.value = 3
                                loops == IF three THEN read16(data, readByte(data, subBlockSize))
                                         ELSE subBlockSize
                                terminator == readByte(data, loops)
                            IN Resume([Pushed(p, "Netscape 2.0 (Animation)") EXCEPT
                                          !.loops = IF three /\ loops.error = "none"
                                                    THEN loops.value ELSE @],
                                      terminator)
                        parseXMP(appData) ==
                            LET xmpData == readDataSubBlocks(data, appData)
                                q == Pushed(p, "XMP Metadata")
                            IN Resume(IF xmpData.error = "none" /\ Len(xmpData.bytes) > 0
                                      THEN [q EXCEPT !.metadata.xmpData = xmpData.bytes] ELSE q,
                                      xmpData)
                    IN
                    LET blockSize == readByte(data, label)
                        appData == readBytes(data, blockSize, blockSize.value)
                        n == blockSize.value
                        id == appData.bytes
                        skipped(name) == Resume(Pushed(p, name),
                                                skipDataSubBlocks(data, appData))
                    IN IF appData.error # "none" THEN Resume(p, appData)
                       ELSE IF n = 11 /\ slice0(id, 8) = NETSCAPE_APPLICATION_IDENTIFIER
                       THEN parseNetscape(appData)
                       ELSE IF n = 11 /\ id = XMP_IDENTIFIER THEN parseXMP(appData)
                       ELSE IF n = 11 /\ slice0(id, 8) = ICC_PREFIX
                       THEN skipped("ICC Color Profile")
                       ELSE IF n >= 8 /\ slice0(id, 8) \in {MAGPIE01, MAGPIE02}
                       THEN skipped("MAGPIE Extension")
                       ELSE IF n >= 8 /\ slice0(id, 5) = ADOBE
                       THEN skipped("Adobe Extension")
                       ELSE IF n >= 11 /\ slice0(id, 11) = ANIMEXTS
                       THEN skipped("Animation Extensions 1.0")
                       ELSE IF n > 0 THEN skipped("Application Extension")
                       ELSE Resume(p, skipDataSubBlocks(data, appData))
                parseGraphicsControl(label) ==
                    LET blockSize == readByte(data, label)
                        packed == readByte(data, blockSize)
                        delay == read16(data, packed)
                        transparentIndex == readByte(data, delay)
                        terminator == readByte(data, transparentIndex)
                    IN IF blockSize.error = "none" /\ blockSize.value # 4
                       THEN Resume(p, readByte(data, advance(blockSize, blockSize.value)))
                       ELSE IF terminator.error # "none" THEN Resume(p, terminator)
                       ELSE Resume([p EXCEPT
                                       !.metadata.hasTransparency =
                                           @ \/ (transparentIndex.value # 0
                                                 /\ packed.value % 2 = 1),
                                       !.totalDuration = @ + delay.value * 10],
                                   terminator)
                parseComment(label) ==
                    LET commentData == readDataSubBlocks(data, label)
                    IN Resume(IF commentData.error = "none" /\ Len(commentData.bytes) > 0
                              THEN [Pushed(p, "Comment Extension") EXCEPT
                                       !.metadata.comments = Append(@, commentData.bytes)]
                              ELSE p,
                              commentData)
                parsePlainText(label) ==
                    LET blockSize == readByte(data, label)
                        grid == readBytes(data, blockSize, blockSize.value)
                    IN Resume(Pushed(p, "Plain Text Extension"),
                              skipDataSubBlocks(data, grid))
                \* an extension of any other label: a failure to skip it leaves the loop
                parseUnknown(label) ==
                    LET skipped == skipDataSubBlocks(data, label)
                        q == Resume(Pushed(p, "Unknown Extension"), skipped)
                    IN IF skipped.error # "none" THEN [q EXCEPT !.status = "break"] ELSE q
            IN
            LET label == readByte(data, separator)
            IN IF label.error # "none" THEN Resume(p, label)
               ELSE IF label.value = 255 THEN parseApplication(label)
               ELSE IF label.value = 249 THEN parseGraphicsControl(label)
               ELSE IF label.value = 254 THEN parseComment(label)
               ELSE IF label.value = 1 THEN parsePlainText(label)
               ELSE IF label.value = 253
               THEN Resume(Pushed(p, "Unknown Extension (0xFD)"),
                           skipDataSubBlocks(data, label))
               ELSE IF label.value >= 128 /\ label.value <= 252
               THEN Resume(Pushed(p, "Private Extension"),
                           skipDataSubBlocks(data, label))
               ELSE parseUnknown(label)
        parseImage(separator) ==
            LET packed == readByte(data, advance(separator, 8))
                read == packed.error = "none"
                localColorTableFlag == read /\ packed.value \div 128 = 1
                interlaceFlag == read /\ (packed.value \div 64) % 2 = 1
                localColorTableSize ==
                    IF localColorTableFlag THEN 2 * (2 ^ (packed.value % 8)) ELSE 0
                codeSize == readByte(data, advance(packed, localColorTableSize * 3))
            IN Resume([p EXCEPT !.frameCount = @ + 1,
                                !.metadata.hasLocalColorTables =
                                    @ \/ localColorTableFlag,
                                !.metadata.hasInterlacedFrames = @ \/ interlaceFlag],
                      skipDataSubBlocks(data, codeSize))
    IN
    LET separator == readByte(data, Cursor(p.position))
    IN IF separator.value = 33 THEN parseExtension(separator)
       ELSE IF separator.value = 44 THEN parseImage(separator)
       ELSE IF separator.value = 59
       THEN [p EXCEPT !.position = separator.position, !.status = "break"]
       ELSE [p EXCEPT !.position = separator.position, !.status = "GifValidationError"]

\* the call up to the loop: the locals, with status "GifValidationError" if the screen
\* descriptor could not be read
parseStart(r) ==
    LET start(screen) ==
            Resume([position |-> r.position, metadata |-> r.metadata,
                    status |-> "loop", screen |-> screen, loops |-> 0,
                    frameCount |-> 0, totalDuration |-> 0],
                   screen.c)
    IN start(readLogicalScreen(r.data, Cursor(r.position)))

\* the code after the loop: the metadata with the technical details, and
\* the GifInfo
parseMetadata(r, p) ==
    LET
        \* Math.round(a / b) of naturals
        roundDiv(a, b) == (2 * a + b) \div (2 * b)
    IN
    [p.metadata EXCEPT
        !.totalDataSize = Len(r.data),
        !.averageFrameSize = IF p.frameCount > 0
                             THEN roundDiv(Len(r.data), p.frameCount) ELSE 0]

(***************************************************************************)
(* The canvas compositor.  A canvas is the sequence of its RGBA bytes.     *)
(***************************************************************************)
\* deinterlaceY with Math.floor in the place of Math.ceil
deinterlaceY_floor(y, height) ==
    LET pass1 == height \div 8
        pass2 == (height - 4) \div 8
        pass3 == (height - 2) \div 4
    IN IF y < pass1 THEN y * 8
       ELSE IF y < pass1 + pass2 THEN (y - pass1) * 8 + 4
       ELSE IF y < pass1 + pass2 + pass3 THEN (y - pass1 - pass2) * 4 + 2
       ELSE (y - pass1 - pass2 - pass3) * 2 + 1

deinterlaceY(y, height) ==
    LET
        \* Math.ceil(a / b) for b > 0
        ceilDiv(a, b) == -((-a) \div b)
    IN
    LET pass1 == ceilDiv(height, 8)
        pass2 == ceilDiv(height - 4, 8)
        pass3 == ceilDiv(height - 2, 4)
    IN IF y < pass1 THEN y * 8
       ELSE IF y < pass1 + pass2 THEN (y - pass1) * 8 + 4
       ELSE IF y < pass1 + pass2 + pass3 THEN (y - pass1 - pass2) * 4 + 2
       ELSE (y - pass1 - pass2 - pass3) * 2 + 1

\* the background: the entry of the global colour table, or transparent
backgroundOf(globalColorTable, backgroundColorIndex) ==
    IF globalColorTable # <<>>
       /\ 3 * backgroundColorIndex < Len(globalColorTable)
    THEN <<globalColorTable[backgroundColorIndex * 3 + 1],
           globalColorTable[backgroundColorIndex * 3 + 2],
           globalColorTable[backgroundColorIndex * 3 + 3], 255>>
    ELSE <<0, 0, 0, 0>>

\* every canvas pixel that one of the pairs (x, y) of the two loops reaches
clearFrameArea(canvas, left, top, width, height, globalColorTable, backgroundColorIndex, canvasWidth) ==
    LET bg == backgroundOf(globalColorTable, backgroundColorIndex)
        inArea(pixel) ==
            /\ canvasWidth > 0
            /\ pixel % canvasWidth >= left
            /\ pixel % canvasWidth < left + width
            /\ pixel \div canvasWidth >= top
            /\ pixel \div canvasWidth < top + height
    IN [k \in 1..Len(canvas) |->
           IF inArea((k - 1) \div 4) THEN bg[((k - 1) % 4) + 1]
           ELSE canvas[k]]

\* the colour of an index, taken from the entry after its own
tableColor_next(colorTable, colorIndex) ==
    IF colorTable # <<>> /\ colorIndex * 3 + 5 < Len(colorTable)
    THEN <<colorTable[colorIndex * 3 + 4], colorTable[colorIndex * 3 + 5],
           colorTable[colorIndex * 3 + 6], 255>>
    ELSE <<0, 0, 0, 255>>

\* the colour of an index: the entry of the table, or black
tableColor(colorTable, colorIndex) ==
    IF colorTable # <<>> /\ colorIndex * 3 + 2 < Len(colorTable)
    THEN <<colorTable[colorIndex * 3 + 1], colorTable[colorIndex * 3 + 2],
           colorTable[colorIndex * 3 + 3], 255>>
    ELSE <<0, 0, 0, 255>>

\* compositeFrame drawing on the pixels of the canvas that are still
\* transparent only
compositeFrame_under(canvas, indexData, f) ==
    LET
        RECURSIVE compositeLoop(_, _)
        compositeLoop(target, i) ==
            LET
                setPixel(pixels, canvasIndex, rgba) ==
                    [k \in 1..Len(pixels) |->
                        IF k > canvasIndex /\ k <= canvasIndex + 4
                        THEN rgba[k - canvasIndex] ELSE pixels[k]]
            IN
            IF ~(i < Len(indexData) /\ i < f.width * f.height) THEN target
            ELSE LET colorIndex == indexData[i + 1]
                     frameX == i % f.width
                     frameY == i \div f.width
                     actualY == IF f.interlaced THEN deinterlaceY(frameY, f.height)
                                ELSE frameY
                     canvasX == f.left + frameX
                     canvasY == f.top + actualY
                     canvasIndex == (canvasY * f.canvasWidth + canvasX) * 4
                     drawn == /\ colorIndex # f.transparentIndex
                              /\ canvasX >= 0
                              /\ canvasX < f.canvasWidth
                              /\ canvasY >= 0
                              /\ canvasY < f.canvasHeight
                              /\ canvasIndex < Len(target)
                              /\ target[canvasIndex + 4] = 0
                 IN compositeLoop(IF drawn
                                  THEN setPixel(target, canvasIndex,
                                                tableColor(f.colorTable, colorIndex))
                                  ELSE target, i + 1)
    IN
    compositeLoop(canvas, 0)

compositeFrame(canvas, indexData, f) ==
    LET
        \* the for loop of compositeFrame from pixel i on; f is the frame
        RECURSIVE compositeLoop(_, _)
        compositeLoop(target, i) ==
            LET
                \* the four bytes written at canvasIndex
                setPixel(pixels, canvasIndex, rgba) ==
                    [k \in 1..Len(pixels) |->
                        IF k > canvasIndex /\ k <= canvasIndex + 4
                        THEN rgba[k - canvasIndex] ELSE pixels[k]]
            IN
            IF ~(i < Len(indexData) /\ i < f.width * f.height) THEN target
            ELSE LET colorIndex == indexData[i + 1]
                     frameX == i % f.width
                     frameY == i \div f.width
                     actualY == IF f.interlaced THEN deinterlaceY(frameY, f.height)
                                ELSE frameY
                     canvasX == f.left + frameX
                     canvasY == f.top + actualY
                     canvasIndex == (canvasY * f.canvasWidth + canvasX) * 4
                     drawn == /\ colorIndex # f.transparentIndex
                              /\ canvasX >= 0
                              /\ canvasX < f.canvasWidth
                              /\ canvasY >= 0
                              /\ canvasY < f.canvasHeight
                              /\ canvasIndex < Len(target)
                 IN compositeLoop(IF drawn
                                  THEN setPixel(target, canvasIndex,
                                                tableColor(f.colorTable, colorIndex))
                                  ELSE target, i + 1)
    IN
    compositeLoop(canvas, 0)

\* new Uint8ClampedArray(length) filled with the four bytes of a pixel, or
\* with one byte
filled(length, rgba) == [k \in 1..length |-> rgba[((k - 1) % 4) + 1]]

initialCanvas(screen) ==
    LET bg == backgroundOf(screen.globalColorTable,
                           screen.backgroundColorIndex)
    IN filled(screen.width * screen.height * 4, bg)

(***************************************************************************)
(* GifReader.getFrames, as the code before the loop and one iteration of   *)
(* the loop.  The locals of a running call are g; position and frames are  *)
(* the reader's fields; previousCanvas is <<>> for null and <<canvas>>     *)
(* for a snapshot.                                                         *)
(***************************************************************************)
DoNotDispose == 1

RestoreToBackground == 2

RestoreToPrevious == 3

\* the three locals as they are set before the loop and after every frame
resetFrameLocals(g) ==
    [g EXCEPT !.currentDelay = 100, !.currentDisposal = DoNotDispose,
              !.currentTransparentIndex = -1]

\* the identity of the array that new Uint8ClampedArray(source) returns:
\* a view of the buffer of source would have the identity of source
newBuffer_view(source, fresh) == source

\* the identity of the array that new Uint8ClampedArray(source) returns:
\* an array of its own
newBuffer(source, fresh) == fresh

framesStart(r) ==
    LET start(screen) ==
            Resume(resetFrameLocals(
                       [position |-> 6, frames |-> r.frames,
                        status |-> "loop", screen |-> screen,
                        canvas |-> IF screen.c.error = "none"
                                   THEN initialCanvas(screen) ELSE <<>>,
                        canvasBuffer |-> <<"canvas", 0>>,
                        previousCanvas |-> <<>>, currentDelay |-> 0,
                        currentDisposal |-> 0,
                        currentTransparentIndex |-> 0]),
                   screen.c)
    IN start(readLogicalScreen(r.data, Cursor(6)))

\* a catch that passes the error of the try block on to the caller
caughtFrameError_rethrown(error) == error

\* what the catch does with the error of the try block: nothing leaves it
caughtFrameError(error) == "none"

\* one iteration of the while loop; this.position < this.data.length holds
framesStep(data, g) ==
    LET
        framesExtension(separator) ==
            LET
                \* every branch of the application extension reads the block and skips
                \* the sub-blocks
                framesApplication(label) ==
                    LET blockSize == readByte(data, label)
                        appData == readBytes(data, blockSize, blockSize.value)
                    IN Resume(g, skipDataSubBlocks(data, appData))
                framesGraphicsControl(label) ==
                    LET
                        disposalOf(packedFlags) ==
                            LET disposalFlag == (packedFlags \div 4) % 8
                            IN IF disposalFlag = 2 THEN RestoreToBackground
                               ELSE IF disposalFlag = 3 THEN RestoreToPrevious
                               ELSE DoNotDispose
                    IN
                    LET blockSize == readByte(data, label)
                        packedFlags == readByte(data, blockSize)
                        delay == read16(data, packedFlags)
                        transparentIndex == readByte(data, delay)
                        terminator == readByte(data, transparentIndex)
                    IN IF blockSize.error = "none" /\ blockSize.value # 4
                       THEN Resume(g, readByte(data, advance(blockSize, blockSize.value)))
                       ELSE IF terminator.error # "none" THEN Resume(g, terminator)
                       ELSE Resume([g EXCEPT
                                       !.currentDelay = delay.value * 10,
                                       !.currentDisposal = disposalOf(packedFlags.value),
                                       !.currentTransparentIndex =
                                           IF packedFlags.value % 2 = 0 THEN -1
                                           ELSE transparentIndex.value],
                                   terminator)
                framesPlainText(label) ==
                    LET blockSize == readByte(data, label)
                        grid == readBytes(data, blockSize, blockSize.value)
                    IN Resume(g, skipDataSubBlocks(data, grid))
                framesUnknown(label) ==
                    LET skipped == skipDataSubBlocks(data, label)
                        q == Resume(g, skipped)
                    IN IF skipped.error # "none" THEN [q EXCEPT !.status = "break"] ELSE q
            IN
            LET label == readByte(data, separator)
            IN IF label.error # "none" THEN Resume(g, label)
               ELSE IF label.value = 255 THEN framesApplication(label)
               ELSE IF label.value = 249 THEN framesGraphicsControl(label)
               ELSE IF label.value = 1 THEN framesPlainText(label)
               ELSE IF label.value = 254 \/ label.value = 253
                       \/ (label.value >= 128 /\ label.value <= 252)
               THEN Resume(g, skipDataSubBlocks(data, label))
               ELSE framesUnknown(label)
        framesImage(separator) ==
            LET
                \* the try block and its catch; f is the frame read from the stream
                framesDecode(locals, f) ==
                    LET
                        \* the canvas the frame is drawn on: the disposal the frame's own graphics
                        \* control gave is applied to the frame's own area
                        disposedCanvas ==
                            IF locals.previousCanvas # <<>> /\ locals.currentDisposal = RestoreToPrevious
                            THEN locals.previousCanvas[1]
                            ELSE IF locals.currentDisposal = RestoreToBackground
                            THEN clearFrameArea(locals.canvas, f.left, f.top, f.width, f.height,
                                                locals.screen.globalColorTable,
                                                locals.screen.backgroundColorIndex, locals.screen.width)
                            ELSE locals.canvas
                    IN
                    LET canvas == disposedCanvas
                        \* canvas = new Uint8ClampedArray(previousCanvas) is a new array
                        canvasBuffer ==
                            IF locals.previousCanvas # <<>> /\ locals.currentDisposal = RestoreToPrevious
                            THEN newBuffer(<<"previous", Len(locals.frames)>>,
                                           <<"canvas", Len(locals.frames) + 1>>)
                            ELSE locals.canvasBuffer
                        previousCanvas == IF locals.currentDisposal = RestoreToPrevious
                                          THEN <<canvas>> ELSE locals.previousCanvas
                        indexData == decompressLZW(f.compressedData, f.lzwMinimumCodeSize)
                        drawn == compositeFrame(canvas, indexData.bytes, f)
                        frame == [imageData |-> [data |-> drawn, width |-> locals.screen.width,
                                                 height |-> locals.screen.height],
                                  delay |-> locals.currentDelay, disposal |-> locals.currentDisposal,
                                  left |-> 0, top |-> 0,
                                  transparentIndex |-> locals.currentTransparentIndex,
                                  buffer |-> newBuffer(canvasBuffer,
                                                       <<"frame", Len(locals.frames) + 1>>)]
                        errorFrame == [imageData |->
                                           [data |-> filled(f.width * f.height * 4,
                                                            <<255, 255, 255, 255>>),
                                            width |-> f.width, height |-> f.height],
                                       delay |-> locals.currentDelay,
                                       disposal |-> locals.currentDisposal,
                                       left |-> f.left, top |-> f.top,
                                       transparentIndex |-> locals.currentTransparentIndex,
                                       buffer |-> <<"frame", Len(locals.frames) + 1>>]
                    IN IF indexData.error = "none"
                       THEN resetFrameLocals(
                                [locals EXCEPT !.canvas = drawn,
                                          !.canvasBuffer = canvasBuffer,
                                          !.previousCanvas = previousCanvas,
                                          !.frames = Append(@, frame)])
                       ELSE IF caughtFrameError(indexData.error) = "none"
                       THEN resetFrameLocals(
                                [locals EXCEPT !.canvas = canvas,
                                          !.canvasBuffer = canvasBuffer,
                                          !.previousCanvas = previousCanvas,
                                          !.frames = Append(@, errorFrame)])
                       ELSE [locals EXCEPT !.status = caughtFrameError(indexData.error)]
            IN
            LET frameLeft == read16(data, separator)
                frameTop == read16(data, frameLeft)
                frameWidth == read16(data, frameTop)
                frameHeight == read16(data, frameWidth)
                framePacked == readByte(data, frameHeight)
                localColorTableFlag == framePacked.value \div 128 = 1
                localColorTableSize ==
                    IF localColorTableFlag THEN 2 * (2 ^ (framePacked.value % 8))
                    ELSE 0
                table == IF localColorTableFlag
                         THEN readBytes(data, framePacked, localColorTableSize * 3)
                         ELSE framePacked
                lzwMinimumCodeSize == readByte(data, table)
                compressedData == readDataSubBlocks(data, lzwMinimumCodeSize)
                f == [left |-> frameLeft.value, top |-> frameTop.value,
                      width |-> frameWidth.value, height |-> frameHeight.value,
                      interlaced |-> (framePacked.value \div 64) % 2 = 1,
                      colorTable |-> IF localColorTableFlag THEN table.bytes
                                     ELSE g.screen.globalColorTable,
                      transparentIndex |-> g.currentTransparentIndex,
                      canvasWidth |-> g.screen.width,
                      canvasHeight |-> g.screen.height,
                      lzwMinimumCodeSize |-> lzwMinimumCodeSize.value,
                      compressedData |-> compressedData.bytes]
            IN IF compressedData.error # "none" THEN Resume(g, compressedData)
               ELSE framesDecode(Resume(g, compressedData), f)
    IN
    LET separator == readByte(data, Cursor(g.position))
    IN IF separator.value = 33 THEN framesExtension(separator)
       ELSE IF separator.value = 44 THEN framesImage(separator)
       ELSE IF separator.value = 59
       THEN [g EXCEPT !.position = separator.position, !.status = "break"]
       ELSE [g EXCEPT !.position = separator.position, !.status = "GifValidationError"]

\* getFrames() as one call: the error thrown and this.frames after it
getFrames(r) ==
    LET
        \* the loop of getFrames run to its end
        RECURSIVE framesRun(_, _)
        framesRun(data, g) ==
            IF g.status = "loop" /\ g.position < Len(data)
            THEN framesRun(data, framesStep(data, g))
            ELSE g
    IN
    IF Len(r.frames) > 0 THEN [error |-> "none", frames |-> r.frames]
    ELSE LET g == framesRun(r.data, framesStart(r))
         IN [error |-> IF g.status \in {"loop", "break"} THEN "none"
                       ELSE g.status,
             frames |-> g.frames]

(***************************************************************************)
(* createStaticGif and createAnimatedGif of types.ts, as the error thrown   *)
(* and the bytes of the GifResult.                                         *)
(***************************************************************************)
Encoded(r) == [error |-> r.error, bytes |-> r.w.output]

createStaticGif(imageData, maxColors) ==
    LET write(q) ==
            IF q.error # "none" THEN [error |-> q.error, bytes |-> <<>>]
            ELSE Encoded(writeStaticGif(NewGifWriter, q.images[1],
                                        DefaultGlobalOptions,
                                        DefaultImageOptions))
    IN write(quantizeImage(imageData, maxColors))

\* { delay, ...imageOptions[index] }
frameOptionsOf(delay, imageOptions, index) ==
    LET options == IF index <= Len(imageOptions) THEN imageOptions[index]
                   ELSE DefaultImageOptions
    IN [options EXCEPT !.given = @ \cup {"delay"},
                       !.delay = IF "delay" \in options.given THEN @
                                 ELSE delay]

createAnimatedGif(frames, maxColors, delay, loops, imageOptions) ==
    IF Len(frames) = 0 THEN [error |-> "GifValidationError", bytes |-> <<>>]
    ELSE LET frameOptions == [i \in 1..Len(frames) |->
                                 frameOptionsOf(delay, imageOptions, i)]
             write(q) ==
                 IF q.error # "none" THEN [error |-> q.error, bytes |-> <<>>]
                 ELSE Encoded(writeAnimatedGif(NewGifWriter, q.images,
                                               DefaultGlobalOptions, loops,
                                               frameOptions))
         IN write(quantizeFrames(frames, maxColors))

(***************************************************************************)
(* The GifReader state machine.  rd.r holds the fields of the reader,      *)
(* rd.call the locals of the call that is running, rd.last the last call   *)
(* that returned or threw, rd.source how the bytes were made.              *)
(***************************************************************************)
MaxReaderCalls == 2

NoCall == [status |-> "none"]

\* the reader's fields with those the running call keeps in step
parseFields(r, p) == [r EXCEPT !.position = p.position,
                               !.metadata = p.metadata]

framesFields(r, g) == [r EXCEPT !.position = g.position,
                                !.frames = g.frames]

\* the reader when parse returns: the metadata is completed and the info
\* is kept
parseReturned(r, p) ==
    LET
        parseInfo ==
            [width |-> p.screen.width, height |-> p.screen.height,
             frameCount |-> p.frameCount, loops |-> p.loops,
             globalColorTable |-> p.screen.globalColorTable,
             backgroundColorIndex |-> p.screen.backgroundColorIndex,
             pixelAspectRatio |-> p.screen.pixelAspectRatio,
             colorResolution |-> p.screen.colorResolution,
             sortFlag |-> p.screen.sortFlag, duration |-> p.totalDuration,
             size |-> Len(r.data), version |-> SubSeq(r.data, 4, 6),
             metadata |-> parseMetadata(r, p)]
    IN
    [r EXCEPT !.position = p.position, !.metadata = parseMetadata(r, p),
              !.info = <<parseInfo>>]

\* rd after a call of op has returned or thrown error
RdFinished(op, r, error) ==
    rd' = [rd EXCEPT !.pc = "idle", !.r = r, !.call = NoCall,
                     !.calls = rd.calls + 1,
                     !.last = [op |-> op, error |-> error]]

\* rd after the code before the loop, or an iteration of the loop, has
\* left the locals l of parse
RdParsed(l) ==
    IF l.status = "loop" /\ l.position < Len(rd.r.data)
    THEN rd' = [rd EXCEPT !.pc = "parse", !.r = parseFields(rd.r, l),
                          !.call = l]
    ELSE IF l.status \in {"loop", "break"}
    THEN RdFinished("getInfo", parseReturned(rd.r, l), "none")
    ELSE RdFinished("getInfo", parseFields(rd.r, l), l.status)

\* the same for getFrames
RdFramed(l) ==
    IF l.status = "loop" /\ l.position < Len(rd.r.data)
    THEN rd' = [rd EXCEPT !.pc = "frames", !.r = framesFields(rd.r, l),
                          !.call = l]
    ELSE IF l.status \in {"loop", "break"}
    THEN RdFinished("getFrames", framesFields(rd.r, l), "none")
    ELSE RdFinished("getFrames", framesFields(rd.r, l), l.status)

\* new GifReader(data)
RdConstruct ==
    /\ rd.pc = "new"
    /\ LET error == validateHeader(rd.r.data)
       IN rd' = [rd EXCEPT
                    !.pc = IF error = "none" THEN "idle" ELSE "failed",
                    !.r.position = IF error = "none" THEN 6 ELSE 0,
                    !.last = [op |-> "new", error |-> error]]
    /\ UNCHANGED <<lz, wr, qz, ut>>

\* getInfo() up to the loop of parse
RdGetInfo ==
    /\ rd.pc = "idle"
    /\ rd.calls < MaxReaderCalls
    /\ IF rd.r.info # <<>> THEN RdFinished("getInfo", rd.r, "none")
       ELSE RdParsed(parseStart(rd.r))
    /\ UNCHANGED <<lz, wr, qz, ut>>

RdParseStep ==
    /\ rd.pc = "parse"
    /\ RdParsed(parseStep(rd.r.data, rd.call))
    /\ UNCHANGED <<lz, wr, qz, ut>>

\* getFrames() up to its loop
RdGetFrames ==
    /\ rd.pc = "idle"
    /\ rd.calls < MaxReaderCalls
    /\ IF Len(rd.r.frames) > 0 THEN RdFinished("getFrames", rd.r, "none")
       ELSE RdFramed(framesStart(rd.r))
    /\ UNCHANGED <<lz, wr, qz, ut>>

RdFramesStep ==
    /\ rd.pc = "frames"
    /\ RdFramed(framesStep(rd.r.data, rd.call))
    /\ UNCHANGED <<lz, wr, qz, ut>>

\* the caller writes into the pixel array of a frame record it was given:
\* the first byte of the array changes, in every record and in the input
\* array if they are the same array
RdWrite ==
    /\ rd.pc = "idle"
    /\ \E k \in 1..Len(rd.r.frames) :
          LET target == rd.r.frames[k].buffer
              written(bytes) ==
                  IF bytes = <<>> THEN bytes
                  ELSE [bytes EXCEPT ![1] = (@ + 1) % 256]
              after(frame) ==
                  IF frame.buffer # target THEN frame
                  ELSE [frame EXCEPT !.imageData.data = written(@)]
          IN /\ rd.r.frames[k].imageData.data # <<>>
             /\ rd' = [rd EXCEPT
                          !.pc = "written",
                          !.call = [status |-> "written", frame |-> k,
                                    before |-> rd.r.frames],
                          !.r.frames = [n \in 1..Len(rd.r.frames) |->
                                           after(rd.r.frames[n])],
                          !.r.data = IF target = <<"data", 0>>
                                     THEN written(@) ELSE @]
    /\ UNCHANGED <<lz, wr, qz, ut>>

RdNext ==
    \/ RdConstruct
    \/ RdGetInfo
    \/ RdParseStep
    \/ RdGetFrames
    \/ RdFramesStep
    \/ RdWrite

RdStart(source) ==
    /\ rd = [pc |-> "new", r |-> NewGifReader(source.data), call |-> NoCall,
             calls |-> 0, last |-> [op |-> "none", error |-> "none"],
             source |-> source]
    /\ lz = Unused
    /\ wr = Unused
    /\ qz = Unused
    /\ ut = Unused

(***************************************************************************)
(* The byte strings given to the reader: the results of createStaticGif,   *)
(* animations written with GifWriter, animations with the LZW data of one  *)
(* frame damaged, and malformed strings.                                   *)
(***************************************************************************)
NoSource ==
    [kind |-> "none", data |-> <<>>, image |-> <<>>, maxColors |-> 0,
     frames |-> <<>>, global |-> DefaultGlobalOptions, damaged |-> 0,
     intact |-> <<>>, delay |-> 0, loops |-> 0]

\* six colours on three columns and two rows
Gradient ==
    ImageData(3, 2, <<<<0, 0, 0, 255>>, <<50, 0, 0, 255>>, <<100, 0, 0, 255>>,
                      <<0, 200, 0, 255>>, <<0, 0, 250, 255>>,
                      <<9, 9, 9, 255>>>>)

\* the frames of an animation on a canvas of two pixels: both pixels, or
\* one pixel at the left or the right
Full == Image(2, 1, <<0, 1>>, Red \o Green)

FrameOptions(left, disposal, transparentIndex) ==
    [DefaultImageOptions EXCEPT
        !.given = IF transparentIndex >= 0
                  THEN {"disposal", "transparentIndex"} ELSE {"disposal"},
        !.left = left, !.disposal = disposal,
        !.transparentIndex = transparentIndex]

Disposals == 0..3

AnimationSources ==
    LET
        FrameLists ==
            LET
                FirstFrames ==
                    {[image |-> Full, options |-> FrameOptions(0, d, -1)] : d \in Disposals}
                NextFrames ==
                    LET
                        Dot == Image(1, 1, <<0>>, Blue)
                    IN
                    {[image |-> Full, options |-> FrameOptions(0, d, t)] :
                        d \in Disposals, t \in {-1, 1}}
                    \cup {[image |-> Dot, options |-> FrameOptions(x, d, t)] :
                             x \in {0, 1}, d \in Disposals, t \in {-1, 0}}
                \* a frame of one dot or with a transparent pixel, then an opaque
                \* frame over the whole canvas with other pixels than the first
                MiddleFrames ==
                    {[image |-> Image(1, 1, <<0>>, Blue),
                      options |-> FrameOptions(0, d, -1)] : d \in Disposals}
                    \cup {[image |-> Full, options |-> FrameOptions(0, d, 1)] :
                             d \in Disposals}
                LastFrames ==
                    {[image |-> Image(2, 1, <<1, 0>>, Red \o Green),
                      options |-> FrameOptions(0, d, -1)] : d \in Disposals}
            IN
            {<<first>> \o rest :
                first \in FirstFrames,
                rest \in UNION {[1..n -> NextFrames] : n \in 1..(MaxFrames - 1)}}
            \cup {<<first, middle, last>> :
                     first \in FirstFrames, middle \in MiddleFrames,
                     last \in LastFrames}
        GlobalTables ==
            {DefaultGlobalOptions,
             [DefaultGlobalOptions EXCEPT !.colors = Blue \o Green,
                                          !.backgroundColorIndex = 1]}
        imagesOf(frames) == [i \in 1..Len(frames) |-> frames[i].image]
        optionsOf(frames) == [i \in 1..Len(frames) |-> frames[i].options]
    IN
    {[NoSource EXCEPT
         !.kind = "animation", !.frames = fl, !.global = g,
         !.data = writeAnimatedGif(NewGifWriter, imagesOf(fl), g, 0,
                                   optionsOf(fl)).w.output] :
        fl \in FrameLists, g \in GlobalTables}

\* the output of the writer once the first count frames are written
writtenUpTo(images, imageOptions, count) ==
    Then(writeHeader(NewGifWriter), LAMBDA a :
    Then(writeLogicalScreen(a, images[1].width, images[1].height,
                            DefaultGlobalOptions), LAMBDA b :
    Then(writeAnimationInfo(b, 0), LAMBDA c :
    writeImages(c, SubSeq(images, 1, count), imageOptions, 1)))).w.output

subBlocks(data) == IF data = <<>> THEN <<0>> ELSE <<Len(data)>> \o data \o <<0>>

MalformedSources ==
    LET
        WellFormed ==
            LET
                Handmade ==
                    LET
                        \* a stream with every kind of block the reader tells apart
                        Extensions ==
                            <<33, 254, 2, 104, 105, 0>>
                            \o <<33, 1, 2, 7, 7, 1, 65, 0>>
                            \o <<33, 255, 11>> \o NETSCAPE_APPLICATION_IDENTIFIER
                               \o NETSCAPE_APPLICATION_AUTHENTICATION_CODE \o <<3, 1, 2, 0, 0>>
                            \o <<33, 255, 11>> \o XMP_IDENTIFIER \o <<1, 65, 0>>
                            \o <<33, 255, 3, 65, 66, 67, 0>>
                            \o <<33, 5, 1, 0, 0>>
                            \o <<33, 144, 0>>
                            \o <<33, 253, 0>>
                            \o <<33, 249, 4, 5, 10, 0, 1, 0>>
                            \o <<33, 249, 2, 0, 0, 0>>
                    IN
                    GIF_SIGNATURE \o VERSION_87A \o <<2, 0, 1, 0, 128, 1, 0>> \o Red \o Green
                    \o Extensions
                    \o <<44, 0, 0, 0, 0, 2, 0, 1, 0, 0, 2>>
                    \o subBlocks(compressLZW(<<0, 1>>, 2).bytes)
                    \o <<44, 1, 0, 0, 0, 1, 0, 1, 0, 192>> \o Blue \o Blue \o <<2>>
                    \o subBlocks(compressLZW(<<1>>, 2).bytes)
                    \o <<GIF_TRAILER>>
            IN
            {Handmade,
             createStaticGif(ImageData(1, 1, <<<<255, 0, 0, 255>>>>), 256).bytes,
             createAnimatedGif(<<ImageData(1, 1, <<<<255, 0, 0, 255>>>>),
                                 ImageData(1, 1, <<<<0, 0, 255, 255>>>>)>>,
                               256, 100, 3, <<>>).bytes}
        \* other files, by their first bytes
        OtherFiles ==
            {<<60, 104, 116, 109, 108, 62, 0>>, <<137>> \o PNG \o <<13, 10, 26, 10>>,
             JPEG_MARKER \o <<255, 224, 0, 16, 74>>,
             <<71, 73, 70, 56, 56, 97, 1, 0, 1, 0, 0, 0, 0>>}
        Substitutes == {0, 2, 9}
        \* one frame after a Netscape extension whose sub-block has two bytes of
        \* data, the second being the value of the trailer
        ShortNetscape ==
            GIF_SIGNATURE \o GIF_VERSION_89A \o <<1, 0, 1, 0, 128, 0, 0>> \o Red \o Green
            \o <<33, 255, 11>> \o NETSCAPE_APPLICATION_IDENTIFIER
               \o NETSCAPE_APPLICATION_AUTHENTICATION_CODE \o <<2, 1, 59, 0>>
            \o <<44, 0, 0, 0, 0, 1, 0, 1, 0, 0, 2>>
            \o subBlocks(compressLZW(<<0>>, 2).bytes)
            \o <<GIF_TRAILER>>
    IN
    {[NoSource EXCEPT !.kind = "malformed", !.data = d] :
        d \in OtherFiles \cup {ShortNetscape}
              \cup UNION {{b}
                          \cup {SubSeq(b, 1, m) : m \in 0..(Len(b) - 1)}
                          \cup {[b EXCEPT ![j] = v] :
                                    j \in 1..Len(b), v \in Substitutes}
                          : b \in WellFormed}}

MaxRows == 17

Sources ==
    LET
        StaticSources ==
            LET
                CodecImages ==
                    LET
                        CodecPixels == {<<255, 0, 0, 255>>, <<0, 255, 0, 128>>, <<0, 0, 255, 255>>}
                    IN
                    {ImageData(sh[1], sh[2], px) :
                        sh \in Shapes, px \in UNION {[1..n -> CodecPixels] : n \in 1..MaxPixels}}
            IN
            {[NoSource EXCEPT !.kind = "static", !.image = im, !.maxColors = n,
                              !.data = createStaticGif(im, n).bytes] :
                im \in {c \in CodecImages : Len(c.data) = 4 * c.width * c.height}
                       \cup {Gradient},
                n \in {1, 2, 256}}
        \* the animation of frames with the LZW data of frame k replaced; the data
        \* of a frame this small is one sub-block
        DamagedSources ==
            LET
                \* the three frames of a damaged animation, by createAnimatedGif with its
                \* default maxColors, delay and loops
                DamagedFrames ==
                    {<<ImageData(2, 1, <<<<255, 0, 0, 255>>, <<0, 255, 0, 255>>>>),
                       ImageData(2, 1, <<<<0, 255, 0, 255>>, <<255, 0, 0, 255>>>>),
                       ImageData(2, 1, <<<<255, 0, 0, 255>>, <<255, 0, 0, 255>>>>)>>,
                     <<ImageData(1, 1, <<<<255, 0, 0, 255>>>>),
                       ImageData(1, 1, <<<<255, 0, 0, 255>>>>),
                       ImageData(1, 1, <<<<255, 0, 0, 255>>>>)>>}
                \* where the LZW sub-blocks of frame k start: after the bytes before the
                \* frame, its graphics control, image descriptor, colour table and code size
                lzwStart(images, imageOptions, k) ==
                    Len(writtenUpTo(images, imageOptions, k - 1))
                    + (IF k > 1 \/ imageOptions[k].given # {} THEN 8 ELSE 0) + 10
                    + Len(padColorTable(images[k].palette,
                                        calculateColorTableSize(Len(images[k].palette) \div 3)))
                    + 1
                \* the LZW data cut short, or with one byte replaced
                Truncations(data) == {SubSeq(data, 1, m) : m \in 0..(Len(data) - 1)}
                Corruptions(data) ==
                    {[data EXCEPT ![j] = v] : j \in 1..Len(data), v \in {0, 255}} \ {data}
            IN
            LET imageOptions(frames) ==
                    [i \in 1..Len(frames) |-> frameOptionsOf(100, <<>>, i)]
                \* frame k of intact, its LZW data lzw between start and end, damaged
                damaged(frames, intact, k, start, end, lzw) ==
                    {[NoSource EXCEPT
                         !.kind = IF Len(d) < Len(lzw) THEN "truncated"
                                  ELSE "corrupted",
                         !.frames = frames, !.damaged = k, !.intact = intact,
                         !.data = SubSeq(intact, 1, start) \o subBlocks(d)
                                  \o SubSeq(intact, end + 1, Len(intact))] :
                        d \in Truncations(lzw) \cup Corruptions(lzw)}
                located(frames, intact, k, start, end) ==
                    damaged(frames, intact, k, start, end,
                            SubSeq(intact, start + 2, start + 1 + intact[start + 1]))
                each(frames, q, intact) ==
                    UNION {located(frames, intact, k,
                                   lzwStart(q.images, imageOptions(frames), k),
                                   Len(writtenUpTo(q.images, imageOptions(frames),
                                                   k)))
                           : k \in 1..Len(frames)}
            IN UNION {each(frames, quantizeFrames(frames, 256),
                           createAnimatedGif(frames, 256, 100, 0, <<>>).bytes)
                      : frames \in DamagedFrames}
        \* two frames written with the delays d1 and d2 in milliseconds, when
        \* writeAnimatedGif accepts them
        DelayedSources ==
            LET
                Delays == {-100, -5, 0, 4, 5, 14, 15, 100, 655354, 655355}
                framesOf(d1, d2) ==
                    <<[image |-> Full, options |-> WithDelay(d1)],
                      [image |-> Full, options |-> WithDelay(d2)]>>
                written(fl, r) ==
                    IF r.error # "none" THEN {}
                    ELSE {[NoSource EXCEPT !.kind = "delayed", !.frames = fl,
                                           !.data = r.w.output]}
                each(fl) ==
                    written(fl, writeAnimatedGif(NewGifWriter,
                                                 <<fl[1].image, fl[2].image>>,
                                                 DefaultGlobalOptions, 0,
                                                 <<fl[1].options,
                                                   fl[2].options>>))
            IN UNION {each(framesOf(d1, d2)) : d1, d2 \in Delays}
        \* the results of createAnimatedGif(frames, {delay, loops}), when it
        \* returns
        CreatedSources ==
            LET
                Pixel(r, g, b) == ImageData(1, 1, <<<<r, g, b, 255>>>>)
                Solid(r, g, b) ==
                    ImageData(2, 1, [i \in 1..2 |-> <<r, g, b, 255>>])
                CreatedFrames ==
                    {<<Pixel(255, 0, 0)>>,
                     <<Pixel(255, 0, 0), Pixel(0, 0, 255)>>,
                     <<Solid(255, 255, 255), Solid(0, 0, 0)>>,
                     <<Pixel(255, 0, 0), Pixel(0, 0, 255), Pixel(255, 0, 0)>>}
                created(frames, d, n, r) ==
                    IF r.error # "none" THEN {}
                    ELSE {[NoSource EXCEPT !.kind = "created",
                                           !.frames = frames, !.delay = d,
                                           !.loops = n, !.data = r.bytes]}
            IN UNION {created(frames, d, n,
                              createAnimatedGif(frames, 256, d, n, <<>>)) :
                         frames \in CreatedFrames,
                         d \in {-100, 0, 5, 14, 100, 655354},
                         n \in {0, 1, 3, 65535}}
        \* one interlaced frame, one pixel wide and height rows high, the row
        \* transmitted at position t having the colour (t, 0, 0) of a global
        \* table of 32 colours
        InterlacedSources ==
            LET
                Reds == [k \in 1..96 |-> IF k % 3 = 1 THEN k \div 3 ELSE 0]
                bytesOf(height, transmitted) ==
                    GIF_SIGNATURE \o GIF_VERSION_89A
                    \o <<1, 0, height, 0, 244, 0, 0>> \o Reds
                    \o <<44, 0, 0, 0, 0, 1, 0, height, 0, 64, 5>>
                    \o subBlocks(compressLZW(transmitted, 5).bytes)
                    \o <<GIF_TRAILER>>
                interlaced(height, transmitted) ==
                    [NoSource EXCEPT
                        !.kind = "interlaced",
                        !.image = [width |-> 1, height |-> height,
                                   data |-> transmitted],
                        !.data = bytesOf(height, transmitted)]
            IN {interlaced(height, [t \in 1..height |-> t - 1]) :
                   height \in 1..MaxRows}
        \* three frames on a canvas of two pixels: red and green, then a frame of
        \* the given disposal whose LZW data starts with the code 7, which no
        \* dictionary of code size 2 holds after a clear code, then one
        \* transparent pixel; intact is the stream without the second frame
        UndecodableSources ==
            LET
                screen == GIF_SIGNATURE \o GIF_VERSION_89A
                          \o <<2, 0, 1, 0, 128, 1, 0>> \o Red \o Green
                first == <<44, 0, 0, 0, 0, 2, 0, 1, 0, 0, 2>>
                         \o subBlocks(compressLZW(<<0, 1>>, 2).bytes)
                second(disposal) ==
                    <<33, 249, 4, 4 * disposal, 0, 0, 0, 0>>
                    \o <<44, 0, 0, 0, 0, 2, 0, 1, 0, 0, 2>> \o subBlocks(<<60>>)
                third == <<33, 249, 4, 1, 0, 0, 0, 0>>
                         \o <<44, 0, 0, 0, 0, 1, 0, 1, 0, 0, 2>>
                         \o subBlocks(compressLZW(<<0>>, 2).bytes)
            IN {[NoSource EXCEPT
                    !.kind = "undecodable", !.damaged = 2,
                    !.intact = screen \o first \o third \o <<GIF_TRAILER>>,
                    !.data = screen \o first \o second(disposal) \o third
                             \o <<GIF_TRAILER>>] :
                   disposal \in 0..3}
    IN
    StaticSources \cup AnimationSources \cup DamagedSources
    \cup MalformedSources \cup DelayedSources \cup CreatedSources
    \cup InterlacedSources \cup UndecodableSources

RdInit == \E source \in Sources : RdStart(source)

SpecReader == RdInit /\ [][RdNext]_vars

\* C2: for an RGBA image of at most maxColors distinct RGB colours, the
\* bytes of createStaticGif(image, {maxColors}) decode to exactly one frame
\* of the image's width and height in which every pixel has the source
\* pixel's RGB value and alpha 255, and getInfo reports the same width and
\* height and frameCount 1.  getFrames is taken after any calls on the
\* reader, getInfo on a reader whose getFrames has not run.
C2_StaticRoundTrip ==
    ( /\ rd.source.kind = "static"
      /\ Len(extractColors(rd.source.image)) <= rd.source.maxColors
      /\ rd.pc = "idle" )
    => LET image == rd.source.image
       IN /\ rd.last.op = "getFrames"
             => /\ rd.last.error = "none"
                /\ Len(rd.r.frames) = 1
                /\ rd.r.frames[1].imageData.width = image.width
                /\ rd.r.frames[1].imageData.height = image.height
                /\ rd.r.frames[1].imageData.data =
                      [k \in 1..Len(image.data) |->
                          IF k % 4 = 0 THEN 255 ELSE image.data[k]]
          /\ (rd.last.op = "getInfo" /\ Len(rd.r.frames) = 0)
             => /\ rd.last.error = "none"
                /\ rd.r.info[1].width = image.width
                /\ rd.r.info[1].height = image.height
                /\ rd.r.info[1].frameCount = 1
          /\ rd.r.info # <<>>
             => /\ rd.r.info[1].width = image.width
                /\ rd.r.info[1].height = image.height
                /\ rd.r.info[1].frameCount = 1

\* the six colours of the gradient have come back from the reader
C2_Witness ==
    /\ rd.source.kind = "static"
    /\ rd.source.image = Gradient
    /\ rd.source.maxColors = 256
    /\ rd.pc = "idle"
    /\ rd.last = [op |-> "getFrames", error |-> "none"]
    /\ Len(rd.r.frames) = 1
    /\ rd.r.frames[1].imageData.data = Gradient.data

\* C7: before frame n (n >= 2) is drawn, the canvas is updated by the
\* disposal method of frame n-1 on the area of frame n-1 (0 or 1 leaves it,
\* 2 clears the area to the background, 3 restores the canvas as it was
\* before frame n-1 was drawn), and the disposal method of frame n itself
\* has no influence on the pixels reported for frame n.
C7_PreviousFrameDisposal ==
    ( /\ rd.source.kind = "animation"
      /\ rd.pc = "idle"
      /\ rd.last = [op |-> "getFrames", error |-> "none"] )
    => LET frames == rd.source.frames
           screen == readLogicalScreen(rd.r.data, Cursor(6))
           frameOf(n) ==
               [left |-> frames[n].options.left,
                top |-> frames[n].options.top,
                width |-> frames[n].image.width,
                height |-> frames[n].image.height,
                interlaced |-> FALSE,
                colorTable |-> frames[n].image.palette,
                transparentIndex |-> frames[n].options.transparentIndex,
                canvasWidth |-> screen.width,
                canvasHeight |-> screen.height]
           RECURSIVE shown(_)
           \* the canvas frame n is drawn on, and the canvas with frame n
           shown(n) ==
               LET before ==
                       IF n = 1 THEN initialCanvas(screen)
                       ELSE LET previous == shown(n - 1)
                                disposal == frames[n - 1].options.disposal
                                area == frameOf(n - 1)
                            IN IF disposal = RestoreToBackground
                               THEN clearFrameArea(
                                        previous.drawn, area.left, area.top,
                                        area.width, area.height,
                                        screen.globalColorTable,
                                        screen.backgroundColorIndex,
                                        screen.width)
                               ELSE IF disposal = RestoreToPrevious
                               THEN previous.before
                               ELSE previous.drawn
               IN [before |-> before,
                   drawn |-> compositeFrame(before, frames[n].image.data,
                                            frameOf(n))]
       IN /\ Len(rd.r.frames) = Len(frames)
          /\ \A n \in 2..Len(frames) :
                rd.r.frames[n].imageData.data = shown(n).drawn

\* C8: if the LZW data of one frame of an n-frame GIF is corrupted or
\* truncated, the sub-block framing being intact, getFrames does not throw
\* and returns n records, the record of the damaged frame being a white
\* placeholder of the frame's dimensions and every other frame being
\* decoded as in the undamaged GIF.
C8_DamagedFramePlaceholder ==
    ( /\ rd.source.kind \in {"truncated", "corrupted"}
      /\ rd.pc = "idle"
      /\ rd.last.op = "getFrames" )
    => LET k == rd.source.damaged
           frame == rd.source.frames[k]
           intact == getFrames(NewGifReader(rd.source.intact)).frames
       IN /\ rd.last.error = "none"
          /\ Len(rd.r.frames) = Len(rd.source.frames)
          /\ rd.r.frames[k].imageData =
                [data |-> [i \in 1..(4 * frame.width * frame.height) |-> 255],
                 width |-> frame.width, height |-> frame.height]
          /\ \A n \in 1..Len(rd.r.frames) :
                n # k => rd.r.frames[n] = intact[n]

C11_DelayRoundTrip ==
    ( /\ rd.source.kind = "delayed"
      /\ rd.pc = "idle"
      /\ rd.last.op = "getFrames" )
    => /\ rd.last.error = "none"
       /\ Len(rd.r.frames) = Len(rd.source.frames)
       /\ \A n \in 1..Len(rd.source.frames) :
             LET d == rd.source.frames[n].options.delay
             IN rd.r.frames[n].delay =
                   IF d < 0 THEN 0 ELSE ((d + 5) \div 10) * 10

\* frames written with delays of -100 and 15 milliseconds have come back
\* with delays of 0 and 20
C11_Witness ==
    /\ rd.source.kind = "delayed"
    /\ rd.pc = "idle"
    /\ rd.last = [op |-> "getFrames", error |-> "none"]
    /\ rd.source.frames[1].options.delay = -100
    /\ rd.source.frames[2].options.delay = 15
    /\ Len(rd.r.frames) = 2
    /\ rd.r.frames[1].delay = 0
    /\ rd.r.frames[2].delay = 20

\* C11 as stated: the decoded delay is round(d/10)*10 for every delay the
\* writer accepts
C11_DelayRoundTripAnyDelay ==
    ( /\ rd.source.kind = "delayed"
      /\ rd.pc = "idle"
      /\ rd.last.op = "getFrames" )
    => /\ rd.last.error = "none"
       /\ Len(rd.r.frames) = Len(rd.source.frames)
       /\ \A n \in 1..Len(rd.source.frames) :
             rd.r.frames[n].delay =
                ((rd.source.frames[n].options.delay + 5) \div 10) * 10

\* C12: for every numeric frame delay the value stored in the graphics
\* control extension is round(delay / 10) clamped to [0, 65535]: a negative
\* delay is stored as 0, a delay above 655350 ms as 65535, and the frame is
\* written successfully.
C12_StoredDelayClamped ==
    ( /\ wr.last.op = "writeImage"
      /\ wr.before.w.hasWrittenLogicalScreen
      /\ wr.arg[1] \in {OneByOne, TwoByOne}
      /\ wr.arg[2].given = {"delay"} )
    => LET rounded == (wr.arg[2].delay + 5) \div 10
           stored == IF rounded < 0 THEN 0
                     ELSE IF rounded > 65535 THEN 65535 ELSE rounded
           control == Len(wr.before.w.output)
       IN /\ wr.last.error = "none"
          /\ Len(wr.w.output) >= control + 8
          /\ SubSeq(wr.w.output, control + 1, control + 3) = <<33, 249, 4>>
          /\ wr.w.output[control + 5] = stored % 256
          /\ wr.w.output[control + 6] = stored \div 256

(***************************************************************************)
(* The helpers of the writer with their inverses in the reader, called on  *)
(* their own: ut.input is the argument, ut.result what the writer's helper *)
(* returned, ut.back what the reader's helper made of it.                  *)
(***************************************************************************)
MaxBlocks == 3

UtStart(op, input) ==
    /\ ut = [pc |-> "start", op |-> op, input |-> input, result |-> <<>>,
             back |-> <<>>]
    /\ lz = Unused
    /\ wr = Unused
    /\ qz = Unused
    /\ rd = Unused

UtInit ==
    LET
        \* byte strings that end around the end of a full sub-block: zeros,
        \* 255s, and bytes that count up
        Lengths == {0, 1, 2} \cup {255 * b + e : b \in 1..MaxBlocks,
                                                e \in {-1, 0, 1}}
        FramingInputs ==
            {[i \in 1..n |-> 0] : n \in Lengths}
            \cup {[i \in 1..n |-> 255] : n \in Lengths}
            \cup {[i \in 1..n |-> i % 256] : n \in Lengths}
        \* palettes of 1 to 256 colours, no byte of which is 0
        Palettes == {[k \in 1..(3 * c) |-> ((7 * k) % 255) + 1] : c \in 1..256}
    IN
    \/ \E data \in FramingInputs : UtStart("framing", data)
    \/ \E palette \in Palettes : UtStart("colorTable", palette)

\* writeImageData from the sub-blocks on: writeDataSubBlocks and the block
\* terminator
UtFrame ==
    /\ ut.pc = "start"
    /\ ut.op = "framing"
    /\ \E r \in {Then(writeDataSubBlocks(NewGifWriter, ut.input, 0),
                      LAMBDA a : writeByte(a, 0))} :
          ut' = [ut EXCEPT !.pc = IF r.error = "none" THEN "framed" ELSE "done",
                           !.result = r.w.output]
    /\ UNCHANGED <<lz, wr, qz, rd>>

\* readDataSubBlocks at the start of the framed bytes
UtUnframe ==
    /\ ut.pc = "framed"
    /\ ut' = [ut EXCEPT !.pc = "done",
                        !.back = readDataSubBlocks(ut.result, Cursor(0))]
    /\ UNCHANGED <<lz, wr, qz, rd>>

\* writeLogicalScreen with the palette as its global colour table: the
\* size field is in the packed byte, the table follows the descriptor
UtColorTable ==
    /\ ut.pc = "start"
    /\ ut.op = "colorTable"
    /\ \E r \in {Then(writeHeader(NewGifWriter), LAMBDA a :
                      writeLogicalScreen(a, 1, 1,
                          [DefaultGlobalOptions EXCEPT !.colors = ut.input]))} :
          ut' = [ut EXCEPT !.pc = IF r.error = "none" THEN "done" ELSE "threw",
                           !.result = r.w.output]
    /\ UNCHANGED <<lz, wr, qz, rd>>

UtNext ==
    \/ UtFrame
    \/ UtUnframe
    \/ UtColorTable

SpecUtils == UtInit /\ [][UtNext]_vars

\* C13: framing a byte sequence with the writer's sub-block framer and
\* unframing the result with the reader's sub-block reader returns the same
\* byte sequence, and the framed form is a sequence of blocks with a length
\* byte of 1 to 255 followed by exactly one terminating byte 0.
C13_SubBlockRoundTrip ==
    (ut.op = "framing" /\ ut.pc # "start")
    => LET framed == ut.result
           RECURSIVE blocksFrom(_)
           \* from position p on: blocks of 1 to 255 bytes, then the single 0
           blocksFrom(p) ==
               /\ p <= Len(framed)
               /\ IF framed[p] = 0 THEN p = Len(framed)
                  ELSE /\ framed[p] \in 1..255
                       /\ blocksFrom(p + 1 + framed[p])
       IN /\ ut.pc \in {"framed", "done"}
          /\ blocksFrom(1)
          /\ ut.pc = "done"
             => /\ ut.back.error = "none"
                /\ ut.back.bytes = ut.input
                /\ ut.back.position = Len(framed)

\* 511 bytes, zeros among them, have come back from three sub-blocks
C13_Witness ==
    /\ ut.op = "framing"
    /\ ut.pc = "done"
    /\ Len(ut.input) = 511
    /\ ut.input[256] = 0
    /\ Len(ut.result) = 515
    /\ ut.result[1] = 255 /\ ut.result[257] = 255 /\ ut.result[513] = 1
    /\ ut.back.bytes = ut.input

\* C14: decoding the output of createAnimatedGif(frames, {delay: d,
\* loops: n}) with 0 <= n <= 65535 reports a frameCount of the number of
\* frames, a duration of the number of frames times round(d/10)*10 for
\* d >= 0 and of 0 for a negative d, loops equal to n, and a Netscape entry
\* in the extensions of the metadata.  The info is the one of getInfo called
\* before getFrames on the same reader.
C14_AnimatedInfo ==
    ( /\ rd.source.kind = "created"
      /\ rd.pc = "idle" )
    => LET d == rd.source.delay
           reported(info) ==
               /\ info.frameCount = Len(rd.source.frames)
               /\ info.duration =
                     Len(rd.source.frames)
                     * (IF d < 0 THEN 0 ELSE ((d + 5) \div 10) * 10)
               /\ info.loops = rd.source.loops
               /\ \E i \in 1..Len(info.metadata.extensions) :
                     info.metadata.extensions[i] = "Netscape 2.0 (Animation)"
       IN /\ (rd.last.op = "getInfo" /\ Len(rd.r.frames) = 0)
             => rd.last.error = "none"
          /\ rd.r.info # <<>> => reported(rd.r.info[1])

\* the two frames, all white and all black, with a delay of 100 and loops 0
\* are reported as 2 frames of 200 milliseconds in all
C14_Witness ==
    /\ rd.source.kind = "created"
    /\ rd.source.delay = 100
    /\ rd.source.loops = 0
    /\ Len(rd.source.frames) = 2
    /\ rd.source.frames[1].width = 2
    /\ rd.pc = "idle"
    /\ rd.last = [op |-> "getInfo", error |-> "none"]
    /\ rd.r.info # <<>>
    /\ rd.r.info[1].frameCount = 2
    /\ rd.r.info[1].duration = 200
    /\ rd.r.info[1].loops = 0

\* C14 as stated: the duration is the number of frames times
\* round(d/10)*10 for every delay
C14_AnimatedInfoAnyDelay ==
    ( /\ rd.source.kind = "created"
      /\ rd.pc = "idle"
      /\ rd.r.info # <<>> )
    => /\ rd.r.info[1].frameCount = Len(rd.source.frames)
       /\ rd.r.info[1].duration =
             Len(rd.source.frames) * ((rd.source.delay + 5) \div 10) * 10
       /\ rd.r.info[1].loops = rd.source.loops

\* C15: a frame that covers the whole logical screen and has no transparent
\* index yields a frame record equal to the frame's own pixels, whatever
\* the earlier frames drew and whatever the disposal methods are.
C15_OpaqueFullFrame ==
    ( /\ rd.source.kind = "animation"
      /\ rd.pc = "idle"
      /\ rd.last.op = "getFrames" )
    => LET frames == rd.source.frames
           canvas == frames[1].image
           pixelsOf(image) ==
               [k \in 1..(4 * Len(image.data)) |->
                   IF k % 4 = 0 THEN 255
                   ELSE image.palette[3 * image.data[(k + 3) \div 4]
                                      + (k % 4)]]
           opaqueFull(n) ==
               /\ frames[n].image.width = canvas.width
               /\ frames[n].image.height = canvas.height
               /\ frames[n].options.left = 0
               /\ frames[n].options.top = 0
               /\ frames[n].options.transparentIndex = -1
       IN /\ rd.last.error = "none"
          /\ Len(rd.r.frames) = Len(frames)
          /\ \A n \in 1..Len(frames) :
                opaqueFull(n)
                => rd.r.frames[n].imageData.data = pixelsOf(frames[n].image)

\* a green and a red pixel have been drawn over a canvas that a blue dot
\* was drawn on, by a frame with disposal 2 after a frame with disposal 3
C15_Witness ==
    /\ rd.source.kind = "animation"
    /\ rd.pc = "idle"
    /\ rd.last = [op |-> "getFrames", error |-> "none"]
    /\ Len(rd.source.frames) = 3
    /\ rd.source.frames[2].image.palette = Blue
    /\ rd.source.frames[2].options.disposal = 3
    /\ rd.source.frames[3].options.disposal = 2
    /\ Len(rd.r.frames) = 3
    /\ rd.r.frames[2].imageData.data = <<0, 0, 255, 255, 0, 255, 0, 255>>
    /\ rd.r.frames[3].imageData.data = <<0, 255, 0, 255, 255, 0, 0, 255>>

\* C16: for every frame height h >= 1 the rows of an interlaced frame, in
\* the order they are transmitted, go to the rows 0, 8, 16, ... then 4, 12,
\* ... then 2, 6, 10, ... then 1, 3, 5, ... of the frame, every row of
\* [0, h) being written once.
C16_DeinterlaceOrder ==
    ( /\ rd.source.kind = "interlaced"
      /\ rd.pc = "idle"
      /\ rd.last.op = "getFrames" )
    => LET h == rd.source.image.height
           pass(row) == IF row % 8 = 0 THEN 1
                        ELSE IF row % 8 = 4 THEN 2
                        ELSE IF row % 4 = 2 THEN 3 ELSE 4
           \* the number of rows transmitted before row
           position(row) ==
               Cardinality({q \in 0..(h - 1) :
                               \/ pass(q) < pass(row)
                               \/ pass(q) = pass(row) /\ q < row})
       IN /\ rd.last.error = "none"
          /\ Len(rd.r.frames) = 1
          /\ rd.r.frames[1].imageData.height = h
          /\ \A row \in 0..(h - 1) :
                SubSeq(rd.r.frames[1].imageData.data, 4 * row + 1,
                       4 * row + 4)
                = <<rd.source.image.data[position(row) + 1], 0, 0, 255>>

\* the 16 rows transmitted as rows 0, 8, 4, 12, 2, 6, 10, 14, 1, 3, ..., 15
\* have come back in the order 0, 1, ..., 15
C16_Witness ==
    /\ rd.source.kind = "interlaced"
    /\ rd.source.image.height = 16
    /\ rd.pc = "idle"
    /\ rd.last = [op |-> "getFrames", error |-> "none"]
    /\ Len(rd.r.frames) = 1
    /\ [row \in 1..16 |-> rd.r.frames[1].imageData.data[4 * row - 3]]
       = <<0, 8, 4, 9, 2, 10, 5, 11, 1, 12, 6, 13, 3, 14, 7, 15>>

\* C17: when an image has at most maxColors distinct RGB colours, quantize
\* returns a palette with exactly one entry for each distinct colour and
\* maps every pixel to the entry that equals the pixel's RGB value.
C17_ExactPalette ==
    LET image == qz.frames[1]
        rgb(i) == SubSeq(image.data, 4 * i - 3, 4 * i - 1)
        Colours == {rgb(i) : i \in 1..(image.width * image.height)}
    IN ( /\ qz.pc = "done"
         /\ qz.op = "quantizeImage"
         /\ qz.maxColors \in 1..256
         /\ Cardinality(Colours) <= qz.maxColors )
       => /\ qz.error = "none"
          /\ LET palette == qz.images[1].palette
                 entry(k) == SubSeq(palette, 3 * k + 1, 3 * k + 3)
             IN /\ Len(palette) = 3 * Cardinality(Colours)
                /\ \A c \in Colours :
                      Cardinality({k \in 0..(Len(palette) \div 3 - 1) :
                                      entry(k) = c}) = 1
                /\ \A i \in 1..(image.width * image.height) :
                      entry(qz.images[1].data[i]) = rgb(i)

\* the image of two by two pixels in red, green, blue and yellow has been
\* quantized at maxColors 4 to four colours, its indices a permutation of
\* 0, 1, 2, 3
C17_Witness ==
    /\ qz.pc = "done"
    /\ qz.op = "quantizeImage"
    /\ qz.maxColors = 4
    /\ qz.frames[1] = ImageData(2, 2, <<<<255, 0, 0, 255>>, <<0, 255, 0, 255>>,
                                        <<0, 0, 255, 255>>,
                                        <<255, 255, 0, 255>>>>)
    /\ Len(qz.images[1].palette) = 12
    /\ {qz.images[1].data[i] : i \in 1..4} = {0, 1, 2, 3}

\* C18: for a palette of C colours, 1 <= C <= 256, the size field s that
\* the writer computes is the smallest value in [0, 7] with 2^(s+1) >= C,
\* and the colour table it writes has exactly 3 * 2^(s+1) bytes, the first
\* 3 * C of them the palette and all the others 0.
C18_ColorTableSize ==
    (ut.op = "colorTable" /\ ut.pc # "start")
    => LET colors == Len(ut.input) \div 3
           s == ut.result[11] % 8
           table == SubSeq(ut.result, 14, Len(ut.result))
       IN /\ ut.pc = "done"
          /\ ut.result[11] >= 128
          /\ 2 ^ (s + 1) >= colors
          /\ s = 0 \/ 2 ^ s < colors
          /\ Len(table) = 3 * 2 ^ (s + 1)
          /\ SubSeq(table, 1, 3 * colors) = ut.input
          /\ \A k \in (3 * colors + 1)..Len(table) : table[k] = 0

\* a palette of 129 colours has been written with size field 7 as a table
\* of 768 bytes that ends in zeros
C18_Witness ==
    /\ ut.op = "colorTable"
    /\ ut.pc = "done"
    /\ Len(ut.input) = 3 * 129
    /\ ut.result[11] % 8 = 7
    /\ Len(ut.result) = 13 + 768
    /\ ut.result[13 + 387] # 0
    /\ ut.result[13 + 388] = 0
    /\ ut.result[13 + 768] = 0

\* C19: every frame record returned by getFrames owns its pixel buffer: a
\* write into the buffer of one record changes no other record and not the
\* input bytes, and no record shares the canvas that the frames produced
\* after it are drawn on.
C19_FramesOwnBuffers ==
    /\ rd.pc = "written"
       => /\ rd.r.frames[rd.call.frame].imageData.data
                # rd.call.before[rd.call.frame].imageData.data
          /\ \A n \in 1..Len(rd.r.frames) :
                n # rd.call.frame => rd.r.frames[n] = rd.call.before[n]
          /\ rd.r.data = rd.source.data
    /\ rd.pc = "frames"
       => \A n \in 1..Len(rd.call.frames) :
             rd.call.frames[n].buffer # rd.call.canvasBuffer

\* of three records with the same pixels the second has been written to,
\* and the first and the third are as they were
C19_Witness ==
    /\ rd.pc = "written"
    /\ rd.call.frame = 2
    /\ Len(rd.r.frames) = 3
    /\ rd.call.before[1].imageData = rd.call.before[2].imageData
    /\ rd.call.before[3].imageData = rd.call.before[2].imageData
    /\ rd.r.frames[1] = rd.call.before[1]
    /\ rd.r.frames[3] = rd.call.before[3]
    /\ rd.r.frames[2].imageData.data[1]
          = (rd.call.before[2].imageData.data[1] + 1) % 256

\* C20: getInfo().metadata.hasTransparency is true exactly when a graphics
\* control extension of the stream has its transparent colour flag set,
\* whatever the transparent index is, index 0 included.  The writer sets
\* the flag of a frame exactly when the frame has a transparent index.
C20_HasTransparency ==
    ( /\ rd.source.kind = "animation"
      /\ rd.pc = "idle"
      /\ rd.r.info # <<>> )
    => ( rd.r.info[1].metadata.hasTransparency
         <=> \E n \in 1..Len(rd.source.frames) :
                rd.source.frames[n].options.transparentIndex >= 0 )

\* C21: on one GifReader, getInfo and getFrames (isAnimated is getInfo) in
\* any order and any number of times end as the same call ends when it is
\* the first call on a new reader over the same bytes: the same error
\* thrown, or the same GifInfo and the same frame records returned.
C21_CallsRepeatable ==
    rd.pc = "idle" =>
       LET RECURSIVE parseRun(_, _)
           parseRun(data, p) ==
               IF p.status = "loop" /\ p.position < Len(data)
               THEN parseRun(data, parseStep(data, p))
               ELSE p
           fresh == [NewGifReader(rd.r.data) EXCEPT !.position = 6]
           same(p, g) ==
               /\ rd.last.op = "getInfo"
                  => IF p.status \in {"loop", "break"}
                     THEN /\ rd.last.error = "none"
                          /\ rd.r.info = parseReturned(fresh, p).info
                     ELSE rd.last.error = p.status
               /\ rd.last.op = "getFrames"
                  => /\ rd.last.error = g.error
                     /\ rd.r.frames = g.frames
       IN same(parseRun(rd.r.data, parseStart(fresh)), getFrames(fresh))

\* C22: in the output of writeAnimatedGif every image descriptor, the one of
\* the first frame and those of frames without per-frame options included,
\* comes directly after a graphics control extension of its own.
C22_EveryFrameControlled ==
    ( /\ wr.last = [op |-> "writeAnimatedGif", error |-> "none"]
      /\ wr.before.w = NewGifWriter )
    => LET out == wr.w.output
           packed == out[11]
           first == 14 + (IF packed \div 128 = 1
                          THEN 3 * 2 ^ ((packed % 8) + 1) ELSE 0)
           RECURSIVE skipSubBlocks(_)
           skipSubBlocks(pos) ==
               IF pos > Len(out) THEN pos
               ELSE IF out[pos] = 0 THEN pos + 1
               ELSE skipSubBlocks(pos + out[pos] + 1)
           \* the kinds of the blocks from pos on, in the order of the output
           RECURSIVE blocks(_)
           blocks(pos) ==
               IF pos > Len(out) THEN <<>>
               ELSE IF out[pos] = 33
               THEN <<IF out[pos + 1] = 249 THEN "control" ELSE "extension">>
                    \o blocks(skipSubBlocks(pos + 2))
               ELSE IF out[pos] = 44
               THEN LET local == out[pos + 9]
                        table == IF local \div 128 = 1
                                 THEN 3 * 2 ^ ((local % 8) + 1) ELSE 0
                    IN <<"image">> \o blocks(skipSubBlocks(pos + 11 + table))
               ELSE <<"trailer">>
           controlled(kinds) ==
               /\ Len(SelectSeq(kinds, LAMBDA kind : kind = "image"))
                     = Len(wr.arg[1])
               /\ \A n \in 1..Len(kinds) :
                     kinds[n] = "image" => n > 1 /\ kinds[n - 1] = "control"
       IN controlled(blocks(first))

\* C23: for k in 2..8 every code of the stream of compressLZW, the clear
\* codes, the data codes and the final end code, is written at the width at
\* which decompressLZW reads it: the decoder reads the very (code, width)
\* pairs the encoder handed to the bit packer.
C23_WidthsAgree ==
    (lz.pc = "done" /\ lz.k \in 2..8 /\ lz.e.error = "none")
    => lz.d.trace = lz.e.trace

\* C24: median cut goes on splitting until the number of boxes is maxColors
\* or no box can be split: when the partition of a box is degenerate, the
\* other boxes are still split, so that quantization returns fewer than
\* maxColors colours only if splitColorCube leaves every box whole.
C24_SplitsOtherBoxes ==
    (qz.pc = "done" /\ qz.op = "quantizeImage" /\ qz.error = "none")
    => LET cut(cubes) ==
               /\ Len(qz.images[1].palette) = 3 * Len(cubes)
               /\ \/ Len(cubes) = qz.maxColors
                  \/ \A i \in 1..Len(cubes) :
                        Len(splitColorCube(cubes[i])) = 1
       IN cut(medianCut(extractColors(qz.frames[1]), qz.maxColors))

\* C25: compressLZW called with initialCodeSize 1 encodes as it does with
\* initialCodeSize 2, with clear code 4, end code 5 and a first width of 3,
\* and decompressLZW with code size 2 returns the input from its output.
C25_MinimumCodeSize ==
    (lz.k = 1 /\ lz.pc = "compressed")
    => /\ lz.e.trace[1] = <<4, 3>>
       /\ lz.e.trace[Len(lz.e.trace)][1] = 5
       /\ lz.bytes = compressLZW(lz.data, 2).bytes
       /\ decompressLZW(lz.bytes, 2) = [error |-> "none", bytes |-> lz.data]

\* C26: for every byte string on which getInfo and getFrames both return
\* normally, the frameCount of getInfo is the number of frame records of
\* getFrames.
C26_FrameCountAgrees ==
    ( /\ rd.pc = "idle"
      /\ rd.r.info # <<>>
      /\ rd.last = [op |-> "getFrames", error |-> "none"] )
    => rd.r.info[1].frameCount = Len(rd.r.frames)

\* C27: when the decoding of a frame fails and a placeholder is emitted, the
\* canvas and the restore-to-previous snapshot are left as they were after
\* the last frame that was decoded, so that the frames after the placeholder
\* are composed as they are in the stream without the failed frame.
C27_FailedFrameLeavesCanvas ==
    ( /\ rd.source.kind = "undecodable"
      /\ rd.pc = "idle"
      /\ rd.last = [op |-> "getFrames", error |-> "none"] )
    => LET absent == getFrames(NewGifReader(rd.source.intact)).frames
       IN /\ Len(rd.r.frames) = 3
          /\ rd.r.frames[2].imageData =
                [data |-> [i \in 1..8 |-> 255], width |-> 2, height |-> 1]
          /\ rd.r.frames[1].imageData = absent[1].imageData
          /\ rd.r.frames[3].imageData = absent[2].imageData

\* C28: at every point of compressLZW no dictionary code above 4095 has
\* been assigned, the code width lies between initialCodeSize + 1 and 12,
\* and every code handed to the bit packer is smaller than 2^width for the
\* width it is packed at.
C28_CodesFitWidth ==
    (lz.pc # "start" /\ lz.e.error = "none")
    => LET \* the dictionary and the width of e are within their limits
           within(e) ==
               /\ e.nextCode - 1 <= 4095
               /\ \A str \in DOMAIN e.added : e.added[str] <= 4095
               /\ e.currentBits >= lz.k + 1
               /\ e.currentBits <= 12
           \* the encoder after the bytes data[lo..hi], and whether the highest
           \* code and the width were within their limits after each byte
           RECURSIVE encWithin(_, _, _)
           encWithin(c, lo, hi) ==
               IF lo > hi \/ ~c.ok THEN c
               ELSE IF lo = hi
               THEN LET stepped(e) == [e |-> e, ok |-> e.nextCode - 1 <= 4095
                                                       /\ e.currentBits >= lz.k + 1
                                                       /\ e.currentBits <= 12]
                    IN stepped(encStep(c.e, lz.data[lo]))
               ELSE encWithin(encWithin(c, lo, (lo + hi) \div 2),
                              (lo + hi) \div 2 + 1, hi)
       IN /\ within(lz.e)
          /\ encWithin([e |-> encStart(lz.k), ok |-> TRUE], 1, Len(lz.data)).ok
          /\ \A j \in 1..Len(lz.e.trace) :
                /\ lz.e.trace[j][1] < 2 ^ lz.e.trace[j][2]
                /\ lz.e.trace[j][2] >= lz.k + 1
                /\ lz.e.trace[j][2] <= 12

\* the encoder has assigned code 4095 and sent it at a width of 12 bits
C28_Witness ==
    /\ lz.pc # "start"
    /\ lz.e.error = "none"
    /\ \E j \in 1..Len(lz.e.trace) : lz.e.trace[j] = <<4095, 12>>
    /\ C28_CodesFitWidth

\* C29: for every GIF on which getInfo and getFrames both return normally,
\* the duration of getInfo is the sum of the delay fields of the frame
\* records of getFrames.
C29_DurationIsSumOfDelays ==
    ( /\ rd.pc = "idle"
      /\ rd.r.info # <<>>
      /\ rd.last = [op |-> "getFrames", error |-> "none"] )
    => LET RECURSIVE delaysOf(_)
           delaysOf(frames) ==
               IF frames = <<>> THEN 0
               ELSE Head(frames).delay + delaysOf(Tail(frames))
       IN rd.r.info[1].duration = delaysOf(rd.r.frames)

\* C30: the decoder's dictionary has room exactly when the encoder's has:
\* both assign the codes from endCode + 1 up to and including 4095, so that
\* the decoder, once it has read the codes the encoder sent, holds every
\* entry the encoder has assigned, under the same code, and the next code of
\* the two is the same.  Code sizes 2..8, where every data code is read at
\* the width it was written at.
C30_DictionariesAgree ==
    ( /\ lz.pc = "done" /\ lz.k \in 2..8
      /\ lz.e.error = "none" /\ lz.d.status = "done" )
    => /\ lz.d.nextCode = lz.e.nextCode
       /\ \A str \in DOMAIN lz.e.added :
             /\ lz.e.added[str] - endCodeOf(lz.k) \in DOMAIN lz.d.dictionary
             /\ lz.d.dictionary[lz.e.added[str] - endCodeOf(lz.k)] = str

====
